---- MODULE Spec2Model ----
(***************************************************************************)
(* Model of the article extraction pipeline of                             *)
(* personal-reading-analytics-dashboard (src/script):                      *)
(*   - utils/get_page.py : the rate-limited fetcher (fetch_page)           *)
(*   - utils/extractors.py : get_strategy_handler, get_articles            *)
(*   - main.py : process_provider, async_main                              *)
(* Time is counted in integer ticks. The tasks run on one asyncio event     *)
(* loop: the code between two suspension points is atomic. The positions   *)
(* of a task are its suspension points and the call and the return of      *)
(* fetch_page.                                                             *)
(***************************************************************************)
EXTENDS Integers, Sequences, FiniteSets, TLC

----------------------------------------------------------------------------
\* Bounds of the model.
MaxCalls == 3        \* fetch_page calls sharing one fetcher state
MaxClock == 3        \* last tick of the clock
MaxLatency == 3      \* largest GET latency tried in the timed burst
MaxProviders == 4    \* provider records of a run of async_main
MaxFragments == 3     \* fragments handed to get_articles
MaxPipelines == 2    \* provider records of a run of the pipelines alone
MaxClientCalls == 7  \* get_mongo_client and close_mongo_client calls, main's steps included

\* utils/constants.py
DEFAULT_REQUEST_INTERVAL == 1

\* asyncio.Lock() of init_fetcher_state: 0 is the unlocked lock, otherwise
\* the task that holds it.
Unlocked == 0

\* main.py line 141: asyncio.Semaphore(3)
SEMAPHORE_PERMITS == 3

\* The articles sheet before the run appends to it: the rows appended,
\* whether it was sorted and stamped, and the calls made on it, in order
\* ("append", "sort", "stamp", or "append raises" and so on for a call that
\* ended with an exception).
EmptySheet == [rows |-> <<>>, sorted |-> FALSE, stamped |-> FALSE, ops |-> <<>>]

\* Tasks: fetch_page calls, or the process_provider tasks of a run.
Calls == 1..MaxCalls
Tasks == 1..(IF MaxCalls > MaxProviders THEN MaxCalls ELSE MaxProviders)

\* The request intervals tried: the default and twice the default.
Intervals == {DEFAULT_REQUEST_INTERVAL, 2 * DEFAULT_REQUEST_INTERVAL}
MaxInterval == 2 * DEFAULT_REQUEST_INTERVAL

VARIABLES
    state,       \* the fetcher state dict: last_request_time, request_interval, client
    lock,        \* state["lock"]: Unlocked or the task holding it
    clock,       \* time.time() and the event loop's time, in ticks
    latency,     \* least number of ticks a GET takes
    pc,          \* position of each task
    wait_time,   \* fetch_page's local wait_time, per task
    wake,        \* tick at which a task's asyncio.sleep(wait_time) ends
    slot,        \* history: the value a call wrote to last_request_time (-1: none yet)
    reserved,    \* history: the calls in the order they reserved
    getAt,       \* tick at which the GET in flight was issued (-1: no GET in flight)
    gets,        \* history: number of GETs a call issued
    response,    \* what the GET of a call produced (kept until its caller returns)
    soup,        \* the document fetch_page returned (a local of its caller)
    started,     \* history: the clock reading at which the run began
    \* main.py
    providers,   \* get_all_providers(): the provider records, one per task
    existing_titles, \* get_all_titles(): the titles already in the sheet
    semaphore,   \* free permits of asyncio.Semaphore(3)
    articles,    \* the article list each process_provider returned
    mainpc,      \* position of async_main
    all_articles,\* async_main's all_articles
    sheet,       \* rows appended to the articles sheet, and whether it was sorted
    events,      \* events inserted into MongoDB, in order
    dry_run,     \* DRY_RUN
    mongo,       \* whether get_mongo_client() returns a client
    binding,     \* what main's name get_strategy_handler is bound to
    did,         \* history: what process_provider did with the fetched page, per task
    \* get_articles as a generator
    elements,    \* the fragments handed to get_articles
    source_name, \* the source_name handed to get_articles
    cursor,      \* number of fragments the generator has consumed
    gen,         \* the generator: "idle", "running", "exhausted" or "raised"
    yielded,     \* the records yielded so far
    emitted,     \* history: the fragments that produced the records of yielded
    invoked,     \* history: the fragments on which extract_func was called, in order
    \* get_strategy_handler, the wrapped extractor and the universal extractor
    hpc,         \* position of the call sequence: resolve a handler, then extract
    hargs,       \* the arguments of get_strategy_handler
    handler,     \* what get_strategy_handler returned
    article,     \* the fragment handed to the extractor
    sink,        \* the telemetry sink: "absent", "ok" or "raises"
    wresult,     \* how the call of the wrapped extractor ended, with its logs and events
    elem,        \* the fragment handed to universal_html_extractor
    config,      \* the config handed to universal_html_extractor
    provider_url,\* the provider_url handed to universal_html_extractor
    uresult,     \* what universal_html_extractor returned
    date_raw,    \* the argument of clean_and_convert_date
    dresult,     \* how the call of clean_and_convert_date ended
    \* utils/mongo.py and main()
    MONGO_URI,   \* the module's MONGO_URI, read from the environment at import
    MONGO_CLIENT,\* the module's _MONGO_CLIENT: NoClient or the client it holds
    clients,     \* history: per MongoClient constructed, the close() calls it got
    calls,       \* history: the calls of get_mongo_client and close_mongo_client
    runpc        \* position of main(): "calls" before it is called

fetchVars == <<state, lock, clock, latency, pc, wait_time, wake, slot, reserved,
               getAt, gets, response, soup, started>>
mainVars == <<providers, semaphore, articles, mainpc, all_articles, sheet,
              events, dry_run, mongo, binding, did>>
collectVars == <<elements, source_name, cursor, gen, yielded, emitted, invoked>>
mongoVars == <<MONGO_URI, MONGO_CLIENT, clients, calls, runpc>>
extractVars == <<hpc, hargs, handler, article, sink, wresult, elem, config,
                 provider_url, uresult, date_raw, dresult, mongoVars>>
vars == <<fetchVars, mainVars, collectVars, existing_titles, extractVars>>
otherVars == <<mainVars, collectVars, existing_titles, extractVars>>

----------------------------------------------------------------------------
\* utils/get_page.py

\* What client.get(url) can produce: a response with a status code, or an
\* exception (network, timeout, TLS).
StatusCodes == {200, 404}
NoResponse == [raised |-> FALSE, status |-> 0]
GetOutcomes == {[raised |-> FALSE, status |-> s] : s \in StatusCodes}
                 \cup {[raised |-> TRUE, status |-> 0]}

\* init_fetcher_state()
InitFetcherState(interval) ==
    [last_request_time |-> 0, request_interval |-> interval, client |-> "open"]

\* fetch_page lines 50-54: the wait scheduled for a call that reads the clock
\* at `now`.
WaitTime_noElapsed(now, last, interval) ==
    IF now - last < interval THEN interval ELSE 0

WaitTime(now, last, interval) ==
    LET elapsed == now - last
    IN  IF elapsed < interval THEN interval - elapsed ELSE 0

\* fetch_page line 58: the slot written to last_request_time.
ReservedSlot_wait(now, wait) == wait

ReservedSlot(now, wait) == now + wait

\* The lock after the `async with state["lock"]` block of fetch_page exits.
LockAfterReserve_held(t) == t

LockAfterReserve(t) == Unlocked

\* fetch_page lines 61-62: the tick at which asyncio.sleep(wait_time), begun at
\* `now`, ends; a wait of 0 does not sleep.
SleepUntil_noSleep(now, wait) == now

SleepUntil(now, wait) == now + wait

\* fetch_page lines 64-74: how the call ends for an outcome of the GET. The
\* try/except around the GET catches every Exception, so the call returns.
FetchExit(outcome) == "fetched"

\* fetch_page lines 67-74: the document returned for an outcome of the GET.
SoupOf_anyStatus(outcome) ==
    IF ~outcome.raised THEN "soup" ELSE "None"

SoupOf(outcome) ==
    IF ~outcome.raised /\ outcome.status = 200 THEN "soup" ELSE "None"

\* fetch_page lines 69, 71, 74: the state returned with the document. It is
\* the dict the call was given.
ReturnedState_reset(s, outcome) ==
    IF SoupOf(outcome) = "None" THEN [s EXCEPT !.last_request_time = 0] ELSE s

ReturnedState(s, outcome) == s

\* Number of GETs fetch_page issues for one call (line 65, no retry loop).
GetsIssued(n) == n + 1

\* fetch_page lines 46-65, up to the first suspension: take the lock (the
\* call waits while another task holds it), read the clock, compute the
\* wait, reserve the slot, leave the lock; with no wait go straight to the
\* GET, otherwise start asyncio.sleep(wait_time).
FetchReserve(t) ==
    /\ pc[t] = "fetch"
    /\ lock = Unlocked
    /\ LET now == clock
           w == WaitTime(now, state.last_request_time, state.request_interval)
           s == ReservedSlot(now, w)
       IN  /\ state' = [state EXCEPT !.last_request_time = s]
           /\ wait_time' = [wait_time EXCEPT ![t] = w]
           /\ slot' = [slot EXCEPT ![t] = s]
           /\ reserved' = Append(reserved, t)
           /\ lock' = LockAfterReserve(t)
           /\ IF w > 0
              THEN /\ pc' = [pc EXCEPT ![t] = "sleep"]
                   /\ wake' = [wake EXCEPT ![t] = SleepUntil(now, w)]
                   /\ UNCHANGED <<getAt, gets>>
              ELSE /\ pc' = [pc EXCEPT ![t] = "await"]
                   /\ getAt' = [getAt EXCEPT ![t] = clock]
                   /\ gets' = [gets EXCEPT ![t] = GetsIssued(gets[t])]
                   /\ UNCHANGED wake
    /\ UNCHANGED <<clock, latency, response, soup, started>>
    /\ UNCHANGED otherVars

\* fetch_page lines 62-65: the sleep is over, the GET is issued.
FetchWake(t) ==
    /\ pc[t] = "sleep"
    /\ clock >= wake[t]
    /\ pc' = [pc EXCEPT ![t] = "await"]
    /\ getAt' = [getAt EXCEPT ![t] = clock]
    /\ gets' = [gets EXCEPT ![t] = GetsIssued(gets[t])]
    /\ UNCHANGED <<state, lock, clock, latency, wait_time, wake, slot,
                   reserved, response, soup, started>>
    /\ UNCHANGED otherVars

\* fetch_page lines 65-74: the GET ends with `outcome`; fetch_page returns.
FetchReturn(t, outcome) ==
    /\ pc[t] = "await"
    /\ clock >= getAt[t] + latency
    /\ state.client = "closed" => outcome.raised
    /\ response' = [response EXCEPT ![t] = outcome]
    /\ soup' = [soup EXCEPT ![t] = SoupOf(outcome)]
    /\ state' = ReturnedState(state, outcome)
    /\ pc' = [pc EXCEPT ![t] = FetchExit(outcome)]
    /\ wait_time' = [wait_time EXCEPT ![t] = 0]
    /\ wake' = [wake EXCEPT ![t] = 0]
    /\ getAt' = [getAt EXCEPT ![t] = -1]
    /\ UNCHANGED <<lock, clock, latency, slot, reserved, gets, started>>
    /\ UNCHANGED otherVars

\* The clock advances.
Tick ==
    /\ clock < MaxClock
    /\ clock' = clock + 1
    /\ UNCHANGED <<state, lock, latency, pc, wait_time, wake, slot, reserved,
                   getAt, gets, response, soup, started>>
    /\ UNCHANGED otherVars

----------------------------------------------------------------------------
\* utils/extractors.py

\* Python's None, for a field a provider record does not have.
None == "<None>"

\* Strings whose characters matter (titles) are sequences of characters.
Whitespace == {" "}

\* str.strip()
RECURSIVE LStrip(_)
LStrip(s) == IF s # <<>> /\ Head(s) \in Whitespace THEN LStrip(Tail(s)) ELSE s

RECURSIVE RStrip(_)
RStrip(s) ==
    IF s # <<>> /\ s[Len(s)] \in Whitespace
    THEN RStrip(SubSeq(s, 1, Len(s) - 1))
    ELSE s

Strip(s) == RStrip(LStrip(s))

\* str.lower()
LowerChar(c) == CASE c = "A" -> "a" [] c = "B" -> "b" [] OTHER -> c

Lower(s) == [i \in 1..Len(s) |-> LowerChar(s[i])]

\* get_articles lines 331 and 338: t.strip().lower()
NormalizeTitle_noLower(title) == Strip(title)

NormalizeTitle(title) == Lower(Strip(title))

\* get_articles line 331
NormalizedExistingTitles(existing) == {NormalizeTitle(t) : t \in existing}

\* A fragment records what the extractor does on it: raise, or return
\* (date, title, link).
Fragment(r, d, t, l) ==
    [raises |-> r, date |-> d, title |-> t, link |-> l, source |-> ""]

\* The fragment for which the extractor's result carries a source of its own
\* as a fourth field.
Carrying(frag, src) == [frag EXCEPT !.source = src]

\* get_articles line 334: extract_func(article)
ExtractFunc(frag) ==
    IF frag.raises
    THEN [raised |-> TRUE, info |-> <<>>]
    ELSE [raised |-> FALSE,
          info |-> <<frag.date, frag.title, frag.link>>
                     \o (IF frag.source = "" THEN <<>> ELSE <<frag.source>>)]

\* get_articles lines 342-343: what an exception of the extractor does to the
\* loop: `except Exception: pass` skips the fragment.
OnExtractorError_propagate(frag) == "propagate"

OnExtractorError(frag) == "skip"

\* The record takes the source of the extractor's result when it has one.
ArticleStep_carried(frag, normalized, source) ==
    LET r == ExtractFunc(frag)
    IN  IF r.raised
        THEN [do |-> OnExtractorError(frag), record |-> <<>>]
        ELSE IF NormalizeTitle(r.info[2]) \notin normalized
        THEN [do |-> "yield",
              record |-> <<r.info[1], r.info[2], r.info[3],
                           IF Len(r.info) > 3 THEN r.info[4] ELSE source>>]
        ELSE [do |-> "skip", record |-> <<>>]

\* get_articles lines 333-343, one fragment: "yield" with the record, "skip",
\* or "propagate" when an exception leaves the generator.
ArticleStep(frag, normalized, source) ==
    LET r == ExtractFunc(frag)
    IN  IF r.raised
        THEN [do |-> OnExtractorError(frag), record |-> <<>>]
        ELSE LET date == r.info[1]
                 title == r.info[2]
                 link == r.info[3]
             IN  IF NormalizeTitle(title) \notin normalized
                 THEN [do |-> "yield", record |-> <<date, title, link, source>>]
                 ELSE [do |-> "skip", record |-> <<>>]

\* The list when a yielded title joins the titles of line 331.
RECURSIVE ListArticles_dedup(_, _, _, _)
ListArticles_dedup(elems, normalized, source, acc) ==
    IF elems = <<>>
    THEN [raised |-> FALSE, records |-> acc]
    ELSE LET st == ArticleStep(Head(elems), normalized, source)
         IN  CASE st.do = "propagate" -> [raised |-> TRUE, records |-> acc]
               [] st.do = "yield" ->
                    ListArticles_dedup(Tail(elems),
                                       normalized \cup {NormalizeTitle(st.record[2])},
                                       source, Append(acc, st.record))
               [] OTHER -> ListArticles_dedup(Tail(elems), normalized, source, acc)

\* list(get_articles(elements, extract_func, existing_titles, source_name))
RECURSIVE ListArticles(_, _, _, _)
ListArticles(elems, normalized, source, acc) ==
    IF elems = <<>>
    THEN [raised |-> FALSE, records |-> acc]
    ELSE LET st == ArticleStep(Head(elems), normalized, source)
         IN  CASE st.do = "propagate" -> [raised |-> TRUE, records |-> acc]
               [] st.do = "yield" ->
                    ListArticles(Tail(elems), normalized, source, Append(acc, st.record))
               [] OTHER -> ListArticles(Tail(elems), normalized, source, acc)

GetArticles(elems, existing, source) ==
    ListArticles(elems, NormalizedExistingTitles(existing), source, <<>>)

\* The strategy names of utils.constants imported at extractors.py lines 7-11.
STRATEGY_RSS == "rss"
STRATEGY_HTML == "html"
STRATEGY_SUBSTACK == "substack"

\* EXTRACTOR_MAPPING, lines 347-353
EXTRACTOR_MAPPING ==
    [n \in {"freecodecamp", "substack", "github", "shopify", "stripe"} |->
        CASE n = "freecodecamp" -> "extract_fcc_articles"
          [] n = "substack" -> "extract_substack_articles"
          [] n = "github" -> "extract_github_articles"
          [] n = "shopify" -> "extract_shopify_articles"
          [] n = "stripe" -> "extract_stripe_articles"]

\* get_strategy_handler line 377: the extractor of the rss fallback is
\* `lambda art: extract_rss_item(art)`, a function whose __name__ is
\* "<lambda>".
RSS_FALLBACK == "<lambda>"

\* str.lower() on the provider names and strategies of the model.
LowerWord(w) ==
    CASE w = "GitHub" -> "github"
      [] w = "Substack" -> "substack"
      [] w = "Stripe" -> "stripe"
      [] w = "Shopify" -> "shopify"
      [] w = "FreeCodeCamp" -> "freecodecamp"
      [] w = "freeCodeCamp" -> "freecodecamp"
      [] w = "RSS" -> "rss"
      [] w = "HTML" -> "html"
      [] OTHER -> w

\* re.compile(element): None is a TypeError, an unbalanced pattern a re.error.
CompilesAsRegex(element) == element \notin {None, "(", "["}

NoCriteria == [kind |-> "none", tags |-> <<>>, pattern |-> ""]

\* get_strategy_handler, lines 356-394. The result is "raise" when an
\* exception leaves the function, "None" when it returns None, and otherwise
\* the handler: the search criteria handler["element"]() gives and the
\* extractor that wrap_with_error_handler wraps under the provider's name.
GetStrategyHandler(provider_name, strategy, element) ==
    LET noHandler(k) == [kind |-> k, element |-> NoCriteria,
                         extractor |-> "", site |-> ""]
    IN
    IF provider_name = None
    THEN noHandler("raise")
    ELSE
    LET strat == LowerWord(IF strategy \in {None, ""} THEN STRATEGY_HTML ELSE strategy)
        key == LowerWord(provider_name)
        mapped == IF key \in DOMAIN EXTRACTOR_MAPPING THEN EXTRACTOR_MAPPING[key] ELSE ""
        extractor == IF mapped = "" /\ strat = STRATEGY_RSS THEN RSS_FALLBACK
                     ELSE mapped
    IN  IF extractor = ""
        THEN noHandler("None")
        ELSE IF strat = STRATEGY_RSS
        THEN [kind |-> "handler",
              element |-> [kind |-> "tags",
                           tags |-> IF element \in {None, ""} THEN <<"item">>
                                    ELSE <<element, "item">>,
                           pattern |-> ""],
              extractor |-> extractor, site |-> provider_name]
        ELSE IF strat = STRATEGY_SUBSTACK
        THEN IF CompilesAsRegex(element)
             THEN [kind |-> "handler",
                   element |-> [kind |-> "class_", tags |-> <<>>, pattern |-> element],
                   extractor |-> extractor, site |-> provider_name]
             ELSE noHandler("raise")
        ELSE [kind |-> "handler",
              element |-> [kind |-> "name", tags |-> <<element>>, pattern |-> ""],
              extractor |-> extractor, site |-> provider_name]

\* wrap_with_error_handler line 27: str(article)[:300]
SNIPPET_CHARS == 300

\* An article handed to an extractor: whether the extractor raises on it and
\* with which exception, what it returns otherwise, the article's markup
\* (a sequence of characters) and whether str(article) works.
Article(r, e, i, h, p) ==
    [raises |-> r, exc |-> e, info |-> i, html |-> h, printable |-> p]

\* wrap_with_error_handler line 21: func(article)
InnerExtract(func, art) ==
    IF art.raises
    THEN [raised |-> TRUE, value |-> art.exc]
    ELSE [raised |-> FALSE, value |-> art.info]

\* wrap_with_error_handler lines 24-29: str(article)[:300].replace("\n", " "),
\* or "<unavailable>" when str(article) raises.
Snippet(art) ==
    IF art.printable
    THEN LET n == IF Len(art.html) < SNIPPET_CHARS THEN Len(art.html) ELSE SNIPPET_CHARS
         IN  [i \in 1..n |-> IF art.html[i] = "\n" THEN " " ELSE art.html[i]]
    ELSE <<"<unavailable>">>

\* wrap_with_error_handler lines 43-48: the error logged for exception e.
ErrorLog_noSnippet(site_name, snippet, e) ==
    [level |-> "error", site |-> site_name, snippet |-> <<>>, exc |-> e]

ErrorLog(site_name, snippet, e) ==
    [level |-> "error", site |-> site_name, snippet |-> snippet, exc |-> e]

\* The exception a failing report of the event raises inside the wrapper.
TelemetryError == "PyMongoError"

\* wrap_with_error_handler lines 50-69: report the failure to the sink. With
\* no client nothing is inserted; an exception of the report is caught at
\* line 66 and logged as a warning.
ReportFailure_silent(snk, site_name, func, e) ==
    [events |-> <<>>, logs |-> <<>>, error |-> None]

ReportFailure(snk, site_name, func, e) ==
    CASE snk = "ok" ->
           [events |-> <<[type |-> "extraction_failed", source |-> LowerWord(site_name),
                          message |-> e, extractor |-> func]>>,
            logs |-> <<>>, error |-> None]
      [] snk = "raises" ->
           [events |-> <<>>,
            logs |-> <<[level |-> "warning", site |-> site_name, snippet |-> <<>>,
                        exc |-> TelemetryError]>>,
            error |-> TelemetryError]
      [] OTHER -> [events |-> <<>>, logs |-> <<>>, error |-> None]

\* The sinks: get_mongo_client() returns None ("absent"); the event is
\* inserted ("ok"); insert_one fails, which insert_error_event_mongo catches
\* and logs itself ("drops"); the report raises ("raises").
Sinks == {"absent", "ok", "drops", "raises"}

\* wrap_with_error_handler line 71: the bare `raise` re-raises the exception
\* caught at line 22, whatever the report of the event did.
Reraised_masked(e, telemetry_error) ==
    IF telemetry_error # None THEN telemetry_error ELSE e

Reraised(e, telemetry_error) == e

\* The wrapper wrap_with_error_handler(func, site_name) returns, called on an
\* article: how the call ends, what it logged and what it inserted.
WrappedExtractor(func, site_name, art, snk) ==
    LET r == InnerExtract(func, art)
    IN  IF ~r.raised
        THEN [raised |-> FALSE, value |-> r.value, logs |-> <<>>, events |-> <<>>]
        ELSE LET rep == ReportFailure(snk, site_name, func, r.value)
             IN  [raised |-> TRUE,
                  value |-> Reraised(r.value, rep.error),
                  logs |-> <<ErrorLog(site_name, Snippet(art), r.value)>> \o rep.logs,
                  events |-> rep.events]

----------------------------------------------------------------------------
\* utils/format_date.py and the universal extractor of utils/extractors.py

\* A text of the page. Its form tells how it reads: "empty" (no character),
\* "blank" (whitespace only), "words" (no date and no digit in it), or a
\* date written as "iso" (2025-01-05), "isotime" (2025-01-05T10:00:00Z),
\* "rfc822" (Sun, 05 Jan 2025 10:00:00 GMT) or "long" (January 5, 2025);
\* "isoprefix" is an iso date followed by other text and "inwords" a long
\* date among words; "isothen" is an iso date followed by words that hold
\* another date (2025-01-05 updated March 3, 2026), "badiso" is written as
\* an iso date that is no calendar date (2025-13-45) and "legacy" is
\* written Mon Jan 15 2025 99:99:99. s names the words, n is the number of characters of
\* the stripped text, pad tells whether whitespace surrounds the text. The
\* dates written in the texts of the model are calendar dates.
TextOf(form, s, n, y, m, d, pad) ==
    [form |-> form, s |-> s, n |-> n, y |-> y, m |-> m, d |-> d, pad |-> pad]

EmptyText == TextOf("empty", "", 0, 0, 0, 0, FALSE)

\* None where a text is expected: an attribute the element does not have.
NoneText == TextOf("none", "", 0, 0, 0, 0, FALSE)

\* An argument that is not a string: the number 0 ("zero") or another
\* number ("number").
NonStrings == {"zero", "number"}

\* bool(text)
Truthy(t) == t.form \notin {"none", "empty", "zero"}

Words(s, n) == TextOf("words", s, n, 0, 0, 0, FALSE)

DateText(form, y, m, d, pad) ==
    TextOf(form, "",
           CASE form = "iso" -> 10 [] form = "isotime" -> 20
             [] form = "rfc822" -> 29 [] OTHER -> 15,
           y, m, d, pad)

DateForms == {"iso", "isotime", "isoprefix", "rfc822", "long", "inwords"}

\* str.strip()
StripText(t) ==
    IF t.form = "blank" THEN EmptyText ELSE [t EXCEPT !.pad = FALSE]

\* The empty string, and the string strftime("%Y-%m-%d") gives for a date.
NoDate == <<>>

FormatDate(y, m, d) == <<y, m, d>>

\* clean_and_convert_date lines 23-28: the text starts with YYYY-MM-DD.
IsoPrefixDate(t) ==
    IF t.form \in {"iso", "isotime", "isoprefix", "isothen"}
    THEN FormatDate(t.y, t.m, t.d) ELSE NoDate

\* clean_and_convert_date lines 31-35: parsedate_to_datetime
Rfc822Date(t) ==
    IF t.form = "rfc822" THEN FormatDate(t.y, t.m, t.d) ELSE NoDate

\* clean_and_convert_date lines 38-42: parser.parse(date_str, fuzzy=True)
FuzzyDate(t) ==
    IF t.form \in DateForms THEN FormatDate(t.y, t.m, t.d) ELSE NoDate

\* clean_and_convert_date lines 45-49: strptime(date_str[4:16], "%b %d %Y");
\* a "legacy" text is written "Mon Jan 15 2025 99:99:99".
LegacyDate(t) ==
    IF t.form = "legacy" THEN FormatDate(t.y, t.m, t.d) ELSE NoDate

\* clean_and_convert_date: "" for None and for the empty string, otherwise
\* the date of the first attempt that succeeds on the stripped string.
CleanAndConvertDate(date_str) ==
    IF ~Truthy(date_str)
    THEN NoDate
    ELSE LET t == StripText(date_str)
         IN  CASE IsoPrefixDate(t) # NoDate -> IsoPrefixDate(t)
               [] Rfc822Date(t) # NoDate -> Rfc822Date(t)
               [] FuzzyDate(t) # NoDate -> FuzzyDate(t)
               [] LegacyDate(t) # NoDate -> LegacyDate(t)
               [] OTHER -> NoDate

\* The number of characters strftime("%Y") writes for the year: the year is
\* not padded with zeros.
YearWidth(y) == IF y >= 1000 THEN 4 ELSE IF y >= 100 THEN 3 ELSE IF y >= 10 THEN 2 ELSE 1

\* The result of no call.
NoDateYet == [raised |-> "", value |-> NoDate, done |-> FALSE]

\* A call of clean_and_convert_date(date_str): what it raises ("" when it
\* returns) and the value it returns. date_str.strip() (line 20) is outside
\* every try.
CleanAndConvertDateCall(input) ==
    IF Truthy(input) /\ input.form \in NonStrings
    THEN [raised |-> "AttributeError", value |-> NoDate, done |-> TRUE]
    ELSE [raised |-> "", value |-> CleanAndConvertDate(input), done |-> TRUE]

\* A URL: scheme and host ("" for a relative reference), the segments of
\* its path, whether the path starts at the root and whether it ends with
\* a slash. The paths of the model have no dot segments and no query.
Url(scheme, host, path, rooted, slash) ==
    [scheme |-> scheme, host |-> host, path |-> path, rooted |-> rooted, slash |-> slash]

EmptyUrl == Url("", "", <<>>, FALSE, FALSE)

\* None where a URL is expected.
NoUrl == Url("none", "", <<>>, FALSE, FALSE)

\* The href appended to the path of the base, whatever their forms.
UrlJoin_append(base, href) ==
    [base EXCEPT !.path = base.path \o href.path, !.slash = href.slash]

\* urllib.parse.urljoin(base, href) for an absolute base
UrlJoin(base, href) ==
    IF href = EmptyUrl THEN base
    ELSE IF href.rooted
    THEN [base EXCEPT !.path = href.path, !.slash = href.slash]
    ELSE LET dir == IF base.slash \/ base.path = <<>> THEN base.path
                    ELSE SubSeq(base.path, 1, Len(base.path) - 1)
         IN  [base EXCEPT !.path = dir \o href.path, !.slash = href.slash]

\* An element of the page below the fragment, in document order: its tag,
\* its class, its date attributes (NoneText when it has not the attribute),
\* its href (NoUrl when it has none), its own text and the tag of the
\* element it is a child of ("" for a child of the fragment).
AttrNames == {"datetime", "pubdate", "data-date", "data-published", "content"}

NoAttrs == [a \in AttrNames |-> NoneText]

Node(tag, class, attrs, href, text) ==
    [tag |-> tag, class |-> class, attrs |-> attrs, href |-> href, text |-> text,
     parent |-> ""]

\* The element nd as a child of an element with the tag `parent`.
Inside(parent, nd) == [nd EXCEPT !.parent = parent]

\* A CSS selector of the config: by class or by tag; NoSelector when the
\* config does not have the key.
Selector(by, name) == [by |-> by, name |-> name]

NoSelector == Selector("none", "")

\* Index of the first of the matching elements I of the fragment, 0 when
\* none matches.
FirstIndex(I) ==
    IF I = {} THEN 0 ELSE CHOOSE i \in I : \A j \in I : i <= j

\* element.select_one(selector)
SelectOne(element, selector) ==
    FirstIndex({i \in 1..Len(element) :
        \/ selector.by = "class" /\ element[i].class = selector.name
        \/ selector.by = "tag" /\ element[i].tag = selector.name})

\* element.find(tag)
FindTag(element, tag) ==
    FirstIndex({i \in 1..Len(element) : element[i].tag = tag})

\* element.find(attrs={attr: True})
FindAttr(element, attr) ==
    FirstIndex({i \in 1..Len(element) : element[i].attrs[attr] # NoneText})

\* re.compile(cls, re.I).search(class): the classes of the model and the
\* names of meta_classes they contain.
ClassContains(class, cls) ==
    CASE class = "date" -> cls = "date"
      [] class = "post-date" -> cls \in {"date", "post-date"}
      [] class = "Published" -> cls = "published"
      [] class = "entry-meta" -> cls = "meta"
      [] class = "timestamp" -> cls = "time"
      [] OTHER -> FALSE

\* element.find(class_=re.compile(cls, re.I))
FindClass(element, cls) ==
    FirstIndex({i \in 1..Len(element) : ClassContains(element[i].class, cls)})

RECURSIVE SumLen(_)
SumLen(texts) == IF texts = <<>> THEN 0 ELSE Head(texts).n + SumLen(Tail(texts))

\* element.get_text(separator=" ", strip=True): the stripped, non-empty
\* texts joined by a space. Joined with other text, an iso date at the start
\* reads as an iso prefix and a single date elsewhere as a date among words;
\* no fragment of the model has several dated texts after a first text
\* that is not an iso date ("manydates").
GetText(element) ==
    LET all == [i \in 1..Len(element) |-> StripText(element[i].text)]
        parts == SelectSeq(all, LAMBDA t : t.form # "empty")
        dated == {i \in 1..Len(parts) : parts[i].form \in DateForms}
        n == SumLen(parts) + Len(parts) - 1
    IN  IF parts = <<>> THEN EmptyText
        ELSE IF Len(parts) = 1 THEN parts[1]
        ELSE IF parts[1].form \in {"iso", "isotime", "isoprefix"}
        THEN TextOf("isoprefix", "", n, parts[1].y, parts[1].m, parts[1].d, FALSE)
        ELSE IF dated = {} THEN Words("joined", n)
        ELSE IF Cardinality(dated) = 1
        THEN LET k == CHOOSE i \in dated : TRUE
             IN  TextOf("inwords", "", n, parts[k].y, parts[k].m, parts[k].d, FALSE)
        ELSE TextOf("manydates", "", n, 0, 0, 0, FALSE)

\* _extract_date lines 139 and 147: elem.get("datetime") or elem.get_text()
DatetimeOrText(nd) ==
    IF Truthy(nd.attrs["datetime"]) THEN nd.attrs["datetime"] ELSE nd.text

\* _extract_date line 153 and line 162
DATE_ATTRS == <<"pubdate", "data-date", "data-published", "content">>

META_CLASSES == <<"date", "time", "meta", "published", "post-date">>

\* The first date of a sequence that is not empty: each `if date: return date`
\* of _extract_date leaves the function with the first date found.
FirstDate_last(dates) ==
    LET I == {i \in 1..Len(dates) : dates[i] # NoDate}
    IN  IF I = {} THEN NoDate ELSE dates[CHOOSE i \in I : \A j \in I : j <= i]

FirstDate(dates) ==
    LET I == {i \in 1..Len(dates) : dates[i] # NoDate}
    IN  IF I = {} THEN NoDate ELSE dates[CHOOSE i \in I : \A j \in I : i <= j]

\* _extract_date lines 134-142: the explicit selector of the config
SelectorDate(element, cfg) ==
    IF cfg.date_selector # NoSelector /\ SelectOne(element, cfg.date_selector) # 0
    THEN CleanAndConvertDate(DatetimeOrText(element[SelectOne(element, cfg.date_selector)]))
    ELSE NoDate

\* _extract_date lines 145-150: the <time> tag
TimeTagDate(element) ==
    IF FindTag(element, "time") # 0
    THEN CleanAndConvertDate(DatetimeOrText(element[FindTag(element, "time")]))
    ELSE NoDate

\* _extract_date lines 153-159: for each attribute in turn, the first element
\* that has it
AttributeDate(element) ==
    FirstDate([k \in 1..Len(DATE_ATTRS) |->
        IF FindAttr(element, DATE_ATTRS[k]) # 0
        THEN CleanAndConvertDate(
                 element[FindAttr(element, DATE_ATTRS[k])].attrs[DATE_ATTRS[k]])
        ELSE NoDate])

\* _extract_date lines 162-168: for each class name in turn, the first element
\* whose class contains it
ClassDate(element) ==
    FirstDate([k \in 1..Len(META_CLASSES) |->
        IF FindClass(element, META_CLASSES[k]) # 0
        THEN CleanAndConvertDate(element[FindClass(element, META_CLASSES[k])].text)
        ELSE NoDate])

\* _extract_date lines 172-175: the whole text of the fragment
PatternScanDate(element) == CleanAndConvertDate(GetText(element))

\* _extract_date(element, config)
ExtractDate(element, cfg) ==
    FirstDate(<< SelectorDate(element, cfg), TimeTagDate(element),
                 AttributeDate(element), ClassDate(element),
                 PatternScanDate(element) >>)

\* _extract_title_and_link line 98: len(a.get_text().strip()) > 10
ANCHOR_TEXT_MIN == 10

Untitled == Words("<untitled>", 10)

\* _extract_title_and_link(element, config, provider_url)
ExtractTitleAndLink(element, cfg, url) ==
    LET long == FirstIndex({i \in 1..Len(element) :
                    /\ element[i].tag = "a"
                    /\ StripText(element[i].text).n > ANCHOR_TEXT_MIN})
        primary == IF long # 0 THEN long ELSE FindTag(element, "a")
    IN  IF primary = 0
        THEN [title |-> Untitled, link |-> EmptyUrl]
        ELSE LET anchor == element[primary]
                 href == IF anchor.href = NoUrl THEN EmptyUrl ELSE anchor.href
                 link == IF url \notin {NoUrl, EmptyUrl}
                            /\ href.scheme \notin {"http", "https"}
                         THEN UrlJoin(url, href)
                         ELSE href
                 chosen == IF cfg.title_selector # NoSelector
                           THEN SelectOne(element, cfg.title_selector)
                           ELSE 0
             IN  [title |-> IF chosen # 0 THEN StripText(element[chosen].text)
                            ELSE StripText(anchor.text),
                  link |-> link]

\* `config or {}` (line 81): a config that is None or has no key
NoConfig == [date_selector |-> NoSelector, title_selector |-> NoSelector]

\* universal_html_extractor(element, config, provider_url), line 89:
\* (date, title, link)
UniversalHtmlExtractor(element, cfg, url) ==
    LET tl == ExtractTitleAndLink(element, cfg, url)
    IN  << ExtractDate(element, cfg), tl.title, tl.link >>

----------------------------------------------------------------------------
\* Initial values.

\* No fetch_page call has run yet.
NoCallYet ==
    /\ wait_time = [t \in Tasks |-> 0]
    /\ wake = [t \in Tasks |-> 0]
    /\ slot = [t \in Tasks |-> -1]
    /\ reserved = <<>>
    /\ getAt = [t \in Tasks |-> -1]
    /\ gets = [t \in Tasks |-> 0]
    /\ response = [t \in Tasks |-> NoResponse]
    /\ soup = [t \in Tasks |-> "pending"]
    /\ started = clock

\* async_main is not running.
MainIdle ==
    /\ providers = <<>>
    /\ semaphore = SEMAPHORE_PERMITS
    /\ articles = [t \in Tasks |-> <<>>]
    /\ mainpc = "idle"
    /\ all_articles = <<>>
    /\ sheet = EmptySheet
    /\ events = [t \in {0} \cup Tasks |-> <<>>]
    /\ dry_run = FALSE
    /\ binding = "utils"
    /\ mongo = FALSE
    /\ did = [t \in Tasks |-> <<>>]

\* No get_articles generator exists.
CollectIdle ==
    /\ elements = <<>>
    /\ source_name = ""
    /\ cursor = 0
    /\ gen = "idle"
    /\ yielded = <<>>
    /\ emitted = <<>>
    /\ invoked = <<>>

\* No handler is being resolved and no extractor is running.
NoHandlerYet == [kind |-> "pending", element |-> NoCriteria, extractor |-> "", site |-> ""]

NoOutcome == [raised |-> FALSE, value |-> <<>>, logs |-> <<>>, events |-> <<>>]

\* _MONGO_CLIENT = None of line 16: None is NoClient, a client is the number
\* of the MongoClient construction that made it.
NoClient == 0

\* utils/mongo.py as imported, before any call: no URI, no client.
MongoIdle ==
    /\ MONGO_URI = None
    /\ MONGO_CLIENT = NoClient
    /\ clients = <<>>
    /\ calls = <<>>
    /\ runpc = "calls"

ExtractIdle ==
    /\ hpc = "idle"
    /\ hargs = [name |-> "", strategy |-> "", element |-> ""]
    /\ handler = NoHandlerYet
    /\ article = <<>>
    /\ sink = "absent"
    /\ wresult = NoOutcome
    /\ elem = <<>>
    /\ config = NoConfig
    /\ provider_url = NoUrl
    /\ uresult = <<>>
    /\ date_raw = NoneText
    /\ dresult = NoDateYet
    /\ MongoIdle

----------------------------------------------------------------------------
\* Concurrent fetch_page calls sharing one fetcher state.

InitFetch ==
    /\ \E i \in Intervals : state = InitFetcherState(i)
    /\ lock = Unlocked
    /\ clock \in 0..MaxInterval
    /\ latency = 0
    /\ pc = [t \in Tasks |-> IF t \in Calls THEN "fetch" ELSE "idle"]
    /\ NoCallYet
    /\ MainIdle
    /\ CollectIdle
    /\ ExtractIdle
    /\ existing_titles = {}

FetchStep ==
    \/ \E t \in Tasks : FetchReserve(t)
    \/ \E t \in Tasks : FetchWake(t)
    \/ \E t \in Tasks : \E o \in GetOutcomes : FetchReturn(t, o)

NextFetch == FetchStep \/ Tick

SpecFetch == InitFetch /\ [][NextFetch]_vars

----------------------------------------------------------------------------
\* A timed burst: every call starts at the same instant on a state whose last
\* reserved slot is at least request_interval in the past, each GET takes
\* exactly `latency` ticks, and no task is late: the clock does not pass the
\* end of a sleep or of a GET before the task has taken its step.

InitBurst ==
    /\ \E i \in Intervals : state = InitFetcherState(i)
    /\ lock = Unlocked
    /\ clock \in state.request_interval..MaxInterval
    /\ latency \in 1..MaxLatency
    /\ pc = [t \in Tasks |-> IF t \in Calls THEN "fetch" ELSE "idle"]
    /\ NoCallYet
    /\ MainIdle
    /\ CollectIdle
    /\ ExtractIdle
    /\ existing_titles = {}

TickTimed ==
    /\ \A t \in Tasks : pc[t] # "fetch"
    /\ \E t \in Tasks : pc[t] \in {"sleep", "await"}
    /\ \A t \in Tasks : pc[t] = "sleep" => clock < wake[t]
    /\ \A t \in Tasks : pc[t] = "await" => clock < getAt[t] + latency
    /\ clock' = clock + 1
    /\ UNCHANGED <<state, lock, latency, pc, wait_time, wake, slot, reserved,
                   getAt, gets, response, soup, started>>
    /\ UNCHANGED otherVars

NextBurst == FetchStep \/ TickTimed

SpecBurst == InitBurst /\ [][NextBurst]_vars

----------------------------------------------------------------------------
\* main.py

Provider(n, s, e) == [name |-> n, strategy |-> s, element |-> e]

\* The provider records tried: one whose handler resolves, one for which
\* get_strategy_handler returns None, one for which it raises.
ProviderPool ==
    << Provider("GitHub", "html", "article"),
       Provider("myblog", None, "article"),
       Provider("Substack", "substack", "(") >>

\* The provider lists tried, up to the order of the records.
ProviderLists ==
    {ps \in [1..MaxProviders -> 1..Len(ProviderPool)] :
        \A i \in 1..(MaxProviders - 1) : ps[i] <= ps[i + 1]}

\* soup.find_all(...) on a fetched page: a new title, a title the sheet has
\* in another case, a fragment on which the extractor raises, and the new
\* title once more under another link.
PageFragments ==
    << Fragment(FALSE, "2025-01-01", <<"b">>, "/b"),
       Fragment(FALSE, "2025-01-02", <<" ", "A">>, "/a"),
       Fragment(TRUE, "", <<>>, ""),
       Fragment(FALSE, "2025-01-03", <<"b">>, "/b-again") >>

SheetTitles == {<<"a">>}

Event(type, n) == [type |-> type, n |-> n]

RECURSIVE Repeat(_, _)
Repeat(x, n) == IF n = 0 THEN <<>> ELSE <<x>> \o Repeat(x, n - 1)

RECURSIVE Concat(_, _)
Concat(f, n) == IF n = 0 THEN <<>> ELSE Concat(f, n - 1) \o f[n]

\* The event loop runs the tasks while async_main awaits gather and, when
\* the exception of a task has left async_main, until asyncio.run cancels
\* the tasks that are left.
LoopRuns == mainpc \in {"gather", "raised"}

\* What the name get_strategy_handler of main.py is bound to: "utils", the
\* function imported at line 23, which has three parameters, or "patched",
\* a stand-in that takes the four arguments of the call (tests/test_main.py
\* runs process_provider under patch("main.get_strategy_handler")).
Bindings == {"utils", "patched"}

\* The TypeError of a call with four positional arguments of a function
\* that has three parameters.
TooManyArguments ==
    [kind |-> "raise", element |-> NoCriteria, extractor |-> "", site |-> ""]

\* process_provider lines 53-55: get_strategy_handler(provider_name,
\* provider_strategy, provider_element, provider_url). The function of
\* utils raises TypeError on it; the stand-in answers what the function
\* gives on the first three arguments.
HandlerOf(t) ==
    IF binding = "utils"
    THEN TooManyArguments
    ELSE GetStrategyHandler(providers[t].name, providers[t].strategy,
                            providers[t].element)

\* The permits of the semaphore when the `async with semaphore` block of
\* process_provider (lines 47-55) is left: the permit taken is given back.
SemaphoreAfterBlock(permits) == (permits - 1) + 1

\* process_provider lines 47-61: take a permit (the task waits while there is
\* none), resolve the handler, leave the `async with` block. Nothing in the
\* block suspends. An exception of get_strategy_handler leaves
\* process_provider (the try starts at line 63); without a handler the
\* provider returns ([], fetcher_state); otherwise fetch_page is called.
ResolveHandler(t) ==
    /\ mainpc = "gather"
    /\ pc[t] = "start"
    /\ semaphore > 0
    /\ semaphore' = SemaphoreAfterBlock(semaphore)
    /\ pc' = [pc EXCEPT ![t] =
                CASE HandlerOf(t).kind = "raise" -> "raised"
                  [] HandlerOf(t).kind = "None" -> "done"
                  [] OTHER -> "fetch"]
    /\ UNCHANGED <<state, lock, clock, latency, wait_time, wake, slot, reserved,
                   getAt, gets, response, soup, started>>
    /\ UNCHANGED <<providers, articles, mainpc, all_articles, sheet, events,
                   dry_run, mongo, binding, did>>
    /\ UNCHANGED <<collectVars, existing_titles, extractVars>>

\* Events the wrapper of wrap_with_error_handler inserts while the page is
\* extracted: one extraction_failed per raising fragment, when
\* get_mongo_client() returns a client (lines 50-65 of extractors.py).
ExtractionEvents(frags) ==
    IF mongo
    THEN Repeat(Event("extraction_failed", 0),
                Cardinality({i \in 1..Len(frags) : frags[i].raises}))
    ELSE <<>>

\* process_provider lines 70-83 and 107-122: the error event inserted for a
\* failure of the provider, outside dry-run and when get_mongo_client()
\* returns a client.
ErrorEvents_always(type, dry, client) == <<Event(type, 0)>>

ErrorEvents(type, dry, client) ==
    IF ~dry /\ client THEN <<Event(type, 0)>> ELSE <<>>

\* process_provider lines 65-125, after fetch_page has returned: with no
\* document a fetch_failed event and no articles; otherwise the search and
\* get_articles; an exception of either is caught at line 103 and gives a
\* provider_failed event and no articles.
ProcessPage(t, searchRaises) ==
    /\ LoopRuns
    /\ pc[t] = "fetched"
    /\ LET report(type) == ErrorEvents(type, dry_run, mongo)
           found == GetArticles(PageFragments, existing_titles, providers[t].name)
       IN  IF soup[t] = "None"
           THEN /\ ~searchRaises
                /\ events' = [events EXCEPT ![t] = @ \o report("fetch_failed")]
                /\ articles' = [articles EXCEPT ![t] = <<>>]
                /\ did' = did
           ELSE IF searchRaises
           THEN /\ events' = [events EXCEPT ![t] = @ \o report("provider_failed")]
                /\ articles' = [articles EXCEPT ![t] = <<>>]
                /\ did' = [did EXCEPT ![t] = <<"element", "find_all">>]
           ELSE IF found.raised
           THEN /\ events' = [events EXCEPT ![t] =
                                @ \o ExtractionEvents(PageFragments)
                                  \o report("provider_failed")]
                /\ articles' = [articles EXCEPT ![t] = <<>>]
                /\ did' = [did EXCEPT ![t] = <<"element", "find_all", "get_articles">>]
           ELSE /\ events' = [events EXCEPT ![t] = @ \o ExtractionEvents(PageFragments)]
                /\ articles' = [articles EXCEPT ![t] = found.records]
                /\ did' = [did EXCEPT ![t] = <<"element", "find_all", "get_articles">>]
    /\ pc' = [pc EXCEPT ![t] = "done"]
    /\ soup' = [soup EXCEPT ![t] = "pending"]
    /\ response' = [response EXCEPT ![t] = NoResponse]
    /\ UNCHANGED <<state, lock, clock, latency, wait_time, wake, slot, reserved,
                   getAt, gets, started>>
    /\ UNCHANGED <<providers, semaphore, mainpc, all_articles, sheet, dry_run, mongo, binding>>
    /\ UNCHANGED <<collectVars, existing_titles, extractVars>>

\* async_main lines 152-155: gather returns when every task has returned.
GatherReturn ==
    /\ mainpc = "gather"
    /\ \A t \in 1..Len(providers) : pc[t] = "done"
    /\ all_articles' = Concat(articles, Len(providers))
    /\ mainpc' = "persist"
    /\ UNCHANGED fetchVars
    /\ UNCHANGED <<providers, semaphore, articles, sheet, events, dry_run, mongo, binding, did>>
    /\ UNCHANGED <<collectVars, existing_titles, extractVars>>

\* async_main line 153: gather(*tasks) without return_exceptions re-raises the
\* exception of a task, which leaves async_main. Every task has taken its
\* first step by then (the tasks are scheduled before async_main suspends),
\* and the tasks that have not ended go on running.
GatherRaise ==
    /\ mainpc = "gather"
    /\ \E t \in 1..Len(providers) : pc[t] = "raised"
    /\ \A t \in 1..Len(providers) : pc[t] # "start"
    /\ mainpc' = "raised"
    /\ UNCHANGED fetchVars
    /\ UNCHANGED semaphore
    /\ UNCHANGED <<providers, articles, all_articles, sheet, events, dry_run, mongo, binding, did>>
    /\ UNCHANGED <<collectVars, existing_titles, extractVars>>

\* main line 204: asyncio.run, left by the exception of async_main, cancels
\* the tasks that have not ended; their locks and permits are given back.
CancelTasks ==
    /\ mainpc = "raised"
    /\ \E t \in Tasks : pc[t] \notin {"done", "raised", "idle", "cancelled"}
    /\ pc' = [t \in Tasks |->
                IF pc[t] \in {"done", "raised", "idle"} THEN pc[t] ELSE "cancelled"]
    /\ lock' = Unlocked
    /\ semaphore' = SEMAPHORE_PERMITS
    /\ UNCHANGED <<state, clock, latency, wait_time, wake, slot, reserved,
                   getAt, gets, response, soup, started>>
    /\ UNCHANGED <<providers, articles, mainpc, all_articles, sheet, events, dry_run,
                   mongo, binding, did>>
    /\ UNCHANGED <<collectVars, existing_titles, extractVars>>

\* `date, title, link, source, tier = a` (main.py line 177, mongo.py line 108)
UnpacksFive(a) == Len(a) = 5

\* The step of the persistence that fails with an exception of the sheet
\* API: none, batch_append_articles, articles_sheet.sort or
\* articles_sheet.update_cell.
PersistFailures == {"none", "append", "sort", "stamp"}

\* async_main lines 157-198: write the batch (line 161), insert the article
\* events and the summary event (lines 167-170, 188-190), sort and stamp the
\* sheet (lines 193-194), close the fetcher (line 198). Nothing catches an
\* exception here: a failing sheet call, or the ValueError of unpacking a
\* record that has not five fields (main.py line 177 in a dry run, mongo.py
\* line 108 otherwise), leaves async_main at once.
Persist(fail) ==
    /\ mainpc = "persist"
    /\ fail # "none" => ~dry_run
    /\ fail = "append" => all_articles # <<>>
    /\ LET n == Len(all_articles)
           unpackable == \A i \in 1..n : UnpacksFive(all_articles[i])
           appendRaises == fail = "append"
           appends == n > 0 /\ ~dry_run /\ ~appendRaises
           unpackRaises == n > 0 /\ ~unpackable /\ (dry_run \/ (appends /\ mongo))
           raisedEarly == appendRaises \/ unpackRaises
           inserted == IF raisedEarly \/ dry_run \/ ~mongo THEN <<>>
                       ELSE IF n > 0
                       THEN <<Event("extraction", n), Event("extraction_summary", n)>>
                       ELSE <<Event("extraction_summary", 0)>>
           sorts == ~raisedEarly /\ ~dry_run /\ fail # "sort"
           stamps == sorts /\ fail # "stamp"
           raises == raisedEarly \/ fail \in {"sort", "stamp"}
       IN  /\ sheet' = [rows |-> IF appends THEN sheet.rows \o all_articles ELSE sheet.rows,
                        sorted |-> sorts,
                        stamped |-> stamps,
                        ops |-> sheet.ops
                                 \o (IF appends THEN <<"append">>
                                     ELSE IF appendRaises THEN <<"append raises">>
                                     ELSE <<>>)
                                 \o (IF sorts THEN <<"sort">>
                                     ELSE IF ~raisedEarly /\ fail = "sort"
                                     THEN <<"sort raises">> ELSE <<>>)
                                 \o (IF stamps THEN <<"stamp">>
                                     ELSE IF sorts /\ fail = "stamp"
                                     THEN <<"stamp raises">> ELSE <<>>)]
           /\ events' = [events EXCEPT ![0] = @ \o inserted]
           /\ mainpc' = IF raises THEN "raised" ELSE "done"
    /\ state' = [state EXCEPT !.client = IF mainpc' = "done" THEN "closed" ELSE @]
    /\ UNCHANGED <<lock, clock, latency, pc, wait_time, wake, slot, reserved,
                   getAt, gets, response, soup, started>>
    /\ UNCHANGED <<providers, semaphore, articles, all_articles, dry_run, mongo, binding, did>>
    /\ UNCHANGED <<collectVars, existing_titles, extractVars>>

\* A run of async_main: the sheets are read, the fetcher state is created
\* (the clock is at least request_interval past its last_request_time of 0)
\* and one process_provider task per provider is handed to gather.
InitMain ==
    /\ \E ps \in ProviderLists :
          providers = [i \in 1..MaxProviders |-> ProviderPool[ps[i]]]
    /\ existing_titles = SheetTitles
    /\ state = InitFetcherState(DEFAULT_REQUEST_INTERVAL)
    /\ lock = Unlocked
    /\ clock = DEFAULT_REQUEST_INTERVAL
    /\ latency = 0
    /\ pc = [t \in Tasks |-> IF t <= MaxProviders THEN "start" ELSE "idle"]
    /\ NoCallYet
    /\ semaphore = SEMAPHORE_PERMITS
    /\ articles = [t \in Tasks |-> <<>>]
    /\ mainpc = "gather"
    /\ all_articles = <<>>
    /\ sheet = EmptySheet
    /\ events = [t \in {0} \cup Tasks |-> <<>>]
    /\ dry_run \in BOOLEAN
    /\ binding \in Bindings
    /\ mongo \in BOOLEAN
    /\ did = [t \in Tasks |-> <<>>]
    /\ CollectIdle
    /\ ExtractIdle

\* The clock of a run. Between two suspension points a task takes no time:
\* the clock advances only when every task is suspended (asleep or awaiting
\* its GET) or has ended, and some task is asleep before its wake-up tick.
TickMain ==
    /\ mainpc = "gather"
    /\ \A t \in Tasks : pc[t] \in {"sleep", "await", "done", "raised", "idle"}
    /\ \E t \in Tasks : pc[t] = "sleep" /\ clock < wake[t]
    /\ clock' = clock + 1
    /\ UNCHANGED <<state, lock, latency, pc, wait_time, wake, slot, reserved,
                   getAt, gets, response, soup, started>>
    /\ UNCHANGED otherVars

NextMain ==
    \/ \E t \in Tasks : ResolveHandler(t)
    \/ (LoopRuns /\ FetchStep)
    \/ \E t \in Tasks : \E r \in BOOLEAN : ProcessPage(t, r)
    \/ GatherReturn
    \/ GatherRaise
    \/ CancelTasks
    \/ \E f \in PersistFailures : Persist(f)
    \/ TickMain

SpecMain == InitMain /\ [][NextMain]_vars

\* The provider records of the short lists: those of ProviderPool and a
\* second provider that has an extractor of its own.
PipelinePool == ProviderPool \o <<Provider("stripe", "html", "article")>>

\* A run of async_main over a short provider list, in any order of the
\* records.
InitPipeline ==
    /\ \E n \in 0..MaxPipelines :
          \E ps \in [1..n -> 1..Len(PipelinePool)] :
             /\ providers = [i \in 1..n |-> PipelinePool[ps[i]]]
             /\ pc = [t \in Tasks |-> IF t <= n THEN "start" ELSE "idle"]
    /\ existing_titles = SheetTitles
    /\ state = InitFetcherState(DEFAULT_REQUEST_INTERVAL)
    /\ lock = Unlocked
    /\ clock = DEFAULT_REQUEST_INTERVAL
    /\ latency = 0
    /\ NoCallYet
    /\ semaphore = SEMAPHORE_PERMITS
    /\ articles = [t \in Tasks |-> <<>>]
    /\ mainpc = "gather"
    /\ all_articles = <<>>
    /\ sheet = EmptySheet
    /\ events = [t \in {0} \cup Tasks |-> <<>>]
    /\ dry_run \in BOOLEAN
    /\ binding \in Bindings
    /\ mongo \in BOOLEAN
    /\ did = [t \in Tasks |-> <<>>]
    /\ CollectIdle
    /\ ExtractIdle

SpecPipeline == InitPipeline /\ [][NextMain]_vars

\* The steps of task t.
TaskStep(t) ==
    \/ ResolveHandler(t)
    \/ (LoopRuns /\ FetchReserve(t))
    \/ (LoopRuns /\ FetchWake(t))
    \/ (LoopRuns /\ \E o \in GetOutcomes : FetchReturn(t, o))
    \/ \E r \in BOOLEAN : ProcessPage(t, r)

\* The event loop runs every task that is ready (the steps of a task are
\* taken when they stay possible), every GET ends, time passes while tasks
\* sleep, async_main goes on when gather has its result, and asyncio.run
\* cancels what is left when async_main has raised.
FairPipeline ==
    /\ \A t \in Tasks : WF_vars(TaskStep(t))
    /\ WF_vars(TickMain)
    /\ WF_vars(GatherReturn \/ GatherRaise)
    /\ WF_vars(CancelTasks)
    /\ WF_vars(\E f \in PersistFailures : Persist(f))

SpecPipelineFair == SpecPipeline /\ FairPipeline

----------------------------------------------------------------------------
\* One get_articles generator, consumed fragment by fragment.

Titles == {<<"a">>, <<"A">>, <<" ", "a">>, <<"A", " ">>, <<"b">>, <<"a", " ", "b">>}

ExistingPool == {<<"a">>, <<" ", "A", " ">>, <<"B">>}

FragmentPool ==
    {Fragment(TRUE, "", <<>>, "")}
      \cup {Fragment(FALSE, "2025-01-01", t, "/post") : t \in Titles}
      \cup {Carrying(Fragment(FALSE, "2025-01-02", <<"b">>, "/carried"), "freeCodeCamp")}

\* get_articles lines 332-343 for the next fragment.
CollectNext ==
    /\ gen = "running"
    /\ cursor < Len(elements)
    /\ LET i == cursor + 1
           st == ArticleStep(elements[i], NormalizedExistingTitles(existing_titles),
                             source_name)
       IN  /\ cursor' = i
           /\ invoked' = Append(invoked, i)
           /\ gen' = IF st.do = "propagate" THEN "raised" ELSE "running"
           /\ yielded' = IF st.do = "yield" THEN Append(yielded, st.record) ELSE yielded
           /\ emitted' = IF st.do = "yield" THEN Append(emitted, i) ELSE emitted
    /\ UNCHANGED <<elements, source_name, existing_titles>>
    /\ UNCHANGED <<fetchVars, mainVars, extractVars>>

\* The loop of line 332 is over: the generator is exhausted.
CollectEnd ==
    /\ gen = "running"
    /\ cursor = Len(elements)
    /\ gen' = "exhausted"
    /\ UNCHANGED <<elements, source_name, cursor, yielded, emitted, invoked,
                   existing_titles>>
    /\ UNCHANGED <<fetchVars, mainVars, extractVars>>

InitCollect ==
    /\ \E n \in 0..MaxFragments : elements \in [1..n -> FragmentPool]
    /\ existing_titles \in SUBSET ExistingPool
    /\ source_name \in {"GitHub", "myblog"}
    /\ cursor = 0
    /\ gen = "running"
    /\ yielded = <<>>
    /\ emitted = <<>>
    /\ invoked = <<>>
    /\ state = InitFetcherState(DEFAULT_REQUEST_INTERVAL)
    /\ lock = Unlocked
    /\ clock = 0
    /\ latency = 0
    /\ pc = [t \in Tasks |-> "idle"]
    /\ NoCallYet
    /\ MainIdle
    /\ ExtractIdle

NextCollect == CollectNext \/ CollectEnd

SpecCollect == InitCollect /\ [][NextCollect]_vars

----------------------------------------------------------------------------
\* get_strategy_handler for one provider, then the extractor of the handler
\* called on one article.

NamePool == {"GitHub", "Substack", "freecodecamp", "myblog", None}

StrategyPool == {"html", "HTML", "rss", "substack", "xml", "", None}

ElementPool == {"article", "(", "", None}

LongMarkup == [i \in 1..(SNIPPET_CHARS + 1) |-> "x"]

ArticlePool ==
    { Article(FALSE, "", <<"2025-01-01", <<"A">>, "/post">>, <<"<", "a", ">">>, TRUE),
      Article(TRUE, "AttributeError", <<>>, <<"<", "p", ">", "\n", "<", "b", ">">>, TRUE),
      Article(TRUE, "ValueError", <<>>, LongMarkup, TRUE),
      Article(TRUE, "KeyError", <<>>, <<"<", "p", ">">>, FALSE) }

\* process_provider lines 53-55: the handler is resolved.
CallGetStrategyHandler ==
    /\ hpc = "resolve"
    /\ handler' = GetStrategyHandler(hargs.name, hargs.strategy, hargs.element)
    /\ hpc' = CASE handler'.kind = "handler" -> "extract"
                [] handler'.kind = "None" -> "absent"
                [] OTHER -> "raised"
    /\ UNCHANGED <<hargs, article, sink, wresult, elem, config, provider_url, uresult,
                 date_raw, dresult, mongoVars>>
    /\ UNCHANGED <<fetchVars, mainVars, collectVars, existing_titles>>

\* get_articles line 334: the extractor of the handler is called on an article.
CallExtractor ==
    /\ hpc = "extract"
    /\ wresult' = WrappedExtractor(handler.extractor, handler.site, article, sink)
    /\ hpc' = IF wresult'.raised THEN "failed" ELSE "returned"
    /\ UNCHANGED <<hargs, handler, article, sink, elem, config, provider_url, uresult,
                 date_raw, dresult, mongoVars>>
    /\ UNCHANGED <<fetchVars, mainVars, collectVars, existing_titles>>

InitHandler ==
    /\ hpc = "resolve"
    /\ hargs \in [name : NamePool, strategy : StrategyPool, element : ElementPool]
    /\ handler = NoHandlerYet
    /\ article \in ArticlePool
    /\ sink \in Sinks
    /\ wresult = NoOutcome
    /\ elem = <<>>
    /\ config = NoConfig
    /\ provider_url = NoUrl
    /\ uresult = <<>>
    /\ date_raw = NoneText
    /\ dresult = NoDateYet
    /\ MongoIdle
    /\ state = InitFetcherState(DEFAULT_REQUEST_INTERVAL)
    /\ lock = Unlocked
    /\ clock = 0
    /\ latency = 0
    /\ pc = [t \in Tasks |-> "idle"]
    /\ NoCallYet
    /\ MainIdle
    /\ CollectIdle
    /\ existing_titles = {}

NextHandler == CallGetStrategyHandler \/ CallExtractor

SpecHandler == InitHandler /\ [][NextHandler]_vars

----------------------------------------------------------------------------
\* universal_html_extractor called on one fragment.

\* The elements a fragment of the model is put together from, each present
\* or not: an element of class "when" (the date_selector of the model),
\* a <time>, elements with date attributes, elements with a date-like
\* class, a paragraph, and anchors.
WhenParts ==
    { <<>>,
      << Node("span", "when", NoAttrs, NoUrl, DateText("long", 2021, 1, 1, TRUE)) >>,
      << Node("span", "when", NoAttrs, NoUrl, Words("soon", 4)) >> }

TimeParts ==
    { <<>>,
      << Node("time", "", [NoAttrs EXCEPT !["datetime"] = DateText("isotime", 2022, 2, 2, FALSE)],
              NoUrl, Words("yesterday", 9)) >>,
      << Node("time", "", NoAttrs, NoUrl, Words("recently", 8)) >> }

AttrParts ==
    { <<>>,
      << Node("div", "", [NoAttrs EXCEPT !["data-date"] = DateText("iso", 2023, 3, 3, FALSE)],
              NoUrl, EmptyText) >>,
      << Node("div", "", [NoAttrs EXCEPT !["pubdate"] = EmptyText], NoUrl, EmptyText),
         Node("meta", "", [NoAttrs EXCEPT !["content"] = DateText("rfc822", 2023, 3, 4, FALSE)],
              NoUrl, EmptyText) >>,
      << Node("div", "", [NoAttrs EXCEPT !["data-published"] = Words("draft", 5)],
              NoUrl, EmptyText) >> }

ClassParts ==
    { <<>>,
      << Node("span", "post-date", NoAttrs, NoUrl, DateText("long", 2024, 4, 4, TRUE)) >>,
      << Node("span", "entry-meta", NoAttrs, NoUrl, Words("by the editors", 14)),
         Node("span", "timestamp", NoAttrs, NoUrl, Words("updated", 7)) >> }

TextParts ==
    { <<>>,
      << Node("p", "", NoAttrs, NoUrl, Words("Read the story", 14)) >>,
      << Node("p", "", NoAttrs, NoUrl, DateText("iso", 2025, 5, 5, TRUE)) >>,
      << Node("p", "", NoAttrs, NoUrl, TextOf("blank", "", 0, 0, 0, 0, TRUE)) >> }

AnchorParts ==
    { <<>>,
      << Node("a", "", NoAttrs, Url("https", "example.com", <<"tag">>, TRUE, FALSE),
              Words("News", 4)),
         Node("a", "headline", NoAttrs, Url("", "", <<"blog", "post-1">>, FALSE, FALSE),
              Words("A long headline", 15)) >>,
      << Node("a", "", NoAttrs, Url("", "", <<"p", "1">>, TRUE, TRUE), Words("Post", 4)) >>,
      << Node("a", "", NoAttrs, NoUrl, Words("Untethered", 10)) >>,
      << Node("a", "", NoAttrs, Url("", "", <<"short">>, TRUE, FALSE), Words("Short", 5)),
         Node("a", "", NoAttrs, Url("", "", <<"target-article">>, TRUE, FALSE),
              Words("Release notes", 13)) >>,
      << Node("h2", "headline", NoAttrs, NoUrl, Words("Explicit Title", 14)),
         Node("a", "", NoAttrs, Url("", "", <<"wrong-link">>, TRUE, FALSE),
              Words("Heuristic Link", 14)) >>,
      << Node("a", "", NoAttrs, Url("http", "example.org", <<"a", "b">>, TRUE, FALSE),
              Words("Long enough title here", 22)),
         Inside("h3", Node("a", "", NoAttrs, Url("", "", <<"review">>, TRUE, FALSE),
                           Words("Review", 6))) >> }

\* The fragments: the paragraph first or last, the other elements between.
ElementDoms ==
    { head \o a \o w \o t \o at \o c \o tail :
        a \in AnchorParts, w \in WhenParts, t \in TimeParts, at \in AttrParts,
        c \in ClassParts, head \in TextParts, tail \in {<<>>} }
      \cup
    { a \o w \o t \o at \o c \o tail :
        a \in AnchorParts, w \in WhenParts, t \in TimeParts, at \in AttrParts,
        c \in ClassParts, tail \in TextParts }

\* The texts of the fragment that hold a date.
DatedTexts(element) ==
    {i \in 1..Len(element) : element[i].text.form \in DateForms}

\* The fragment has at most one dated text, or its first text is an iso date.
OneDateInText(element) ==
    \/ Cardinality(DatedTexts(element)) <= 1
    \/ /\ element[1].text.form = "iso"

ConfigPool ==
    [date_selector : {NoSelector, Selector("class", "when")},
     title_selector : {NoSelector, Selector("class", "headline")}]

UrlPool == {NoUrl, Url("https", "github.blog", <<>>, TRUE, TRUE),
            Url("https", "example.com", <<"blog", "index.html">>, TRUE, FALSE)}

\* The extractor is called on the fragment.
CallUniversalExtractor ==
    /\ hpc = "extract_html"
    /\ uresult' = UniversalHtmlExtractor(elem, config, provider_url)
    /\ hpc' = "extracted"
    /\ UNCHANGED <<hargs, handler, article, sink, wresult, elem, config, provider_url,
                 date_raw, dresult, mongoVars>>
    /\ UNCHANGED <<fetchVars, mainVars, collectVars, existing_titles>>

InitUniversal ==
    /\ hpc = "extract_html"
    /\ elem \in {e \in ElementDoms : OneDateInText(e)}
    /\ config \in ConfigPool
    /\ provider_url \in UrlPool
    /\ uresult = <<>>
    /\ date_raw = NoneText
    /\ dresult = NoDateYet
    /\ MongoIdle
    /\ hargs = [name |-> "", strategy |-> "", element |-> ""]
    /\ handler = NoHandlerYet
    /\ article = <<>>
    /\ sink = "absent"
    /\ wresult = NoOutcome
    /\ state = InitFetcherState(DEFAULT_REQUEST_INTERVAL)
    /\ lock = Unlocked
    /\ clock = 0
    /\ latency = 0
    /\ pc = [t \in Tasks |-> "idle"]
    /\ NoCallYet
    /\ MainIdle
    /\ CollectIdle
    /\ existing_titles = {}

NextUniversal == CallUniversalExtractor

SpecUniversal == InitUniversal /\ [][NextUniversal]_vars

----------------------------------------------------------------------------
\* clean_and_convert_date called on one argument.

\* The dates written in the arguments: years of three and of four digits.
DateYears == {999, 2024, 2025}
DateMonths == {1, 12}
DateDays == {1, 28}

\* The arguments: None, strings without a date, dates in each of the
\* written forms, with and without surrounding whitespace, and numbers.
DateInputs ==
    { NoneText, EmptyText, TextOf("blank", "", 0, 0, 0, 0, TRUE),
      Words("soon", 4), [Words("soon", 4) EXCEPT !.pad = TRUE],
      TextOf("zero", "0", 0, 0, 0, 0, FALSE),
      TextOf("number", "20250115", 0, 0, 0, 0, FALSE) }
      \cup
    { TextOf("badiso", "", 10, y, 13, 45, pad) : y \in DateYears, pad \in BOOLEAN }
      \cup
    { DateText(form, y, m, d, pad) :
        form \in {"iso", "isotime", "isothen", "rfc822", "long", "inwords", "legacy"},
        y \in DateYears, m \in DateMonths, d \in DateDays, pad \in BOOLEAN }

\* The function is called on the argument.
CallCleanAndConvertDate ==
    /\ hpc = "normalize"
    /\ dresult' = CleanAndConvertDateCall(date_raw)
    /\ hpc' = "normalized"
    /\ UNCHANGED <<hargs, handler, article, sink, wresult, elem, config, provider_url,
                   uresult, date_raw, mongoVars>>
    /\ UNCHANGED <<fetchVars, mainVars, collectVars, existing_titles>>

InitDate ==
    /\ hpc = "normalize"
    /\ date_raw \in DateInputs
    /\ dresult = NoDateYet
    /\ MongoIdle
    /\ hargs = [name |-> "", strategy |-> "", element |-> ""]
    /\ handler = NoHandlerYet
    /\ article = <<>>
    /\ sink = "absent"
    /\ wresult = NoOutcome
    /\ elem = <<>>
    /\ config = NoConfig
    /\ provider_url = NoUrl
    /\ uresult = <<>>
    /\ state = InitFetcherState(DEFAULT_REQUEST_INTERVAL)
    /\ lock = Unlocked
    /\ clock = 0
    /\ latency = 0
    /\ pc = [t \in Tasks |-> "idle"]
    /\ NoCallYet
    /\ MainIdle
    /\ CollectIdle
    /\ existing_titles = {}

NextDate == CallCleanAndConvertDate

SpecDate == InitDate /\ [][NextDate]_vars

----------------------------------------------------------------------------
\* The telemetry client of utils/mongo.py and main().

\* `if not MONGO_URI` of line 24: the variable is unset or empty.
Configured(uri) == uri \notin {None, ""}

\* get_mongo_client with a constructor called on every call.
GetMongoClient_fresh(uri, current, made, constructorRaises) ==
    IF ~Configured(uri)
    THEN [client |-> current, returned |-> NoClient, constructed |-> FALSE]
    ELSE IF constructorRaises
    THEN [client |-> current, returned |-> NoClient, constructed |-> FALSE]
    ELSE [client |-> made + 1, returned |-> made + 1, constructed |-> TRUE]

\* get_mongo_client, lines 19-35, when _MONGO_CLIENT is `current` and `made`
\* clients were constructed so far: the new _MONGO_CLIENT, the value
\* returned, and whether MongoClient(MONGO_URI) returned a client.
GetMongoClient(uri, current, made, constructorRaises) ==
    IF ~Configured(uri)
    THEN [client |-> current, returned |-> NoClient, constructed |-> FALSE]
    ELSE IF current = NoClient
    THEN IF constructorRaises
         THEN [client |-> current, returned |-> NoClient, constructed |-> FALSE]
         ELSE [client |-> made + 1, returned |-> made + 1, constructed |-> TRUE]
    ELSE [client |-> current, returned |-> current, constructed |-> FALSE]

\* close_mongo_client, lines 38-45: the new _MONGO_CLIENT and the close()
\* calls every client has got.
CloseMongoClient(current, closes) ==
    [client |-> NoClient,
     closes |-> IF current # NoClient
                THEN [closes EXCEPT ![current] = @ + 1]
                ELSE closes]

Call(op, client) == [op |-> op, client |-> client]

\* Steps main() takes after it is called: the end of asyncio.run and the
\* close of the finally clause.
MainSteps == 2

\* A caller calls get_mongo_client(): before main(), or within async_main
\* (main.py lines 71, 108, 167, 188 and extractors.py line 52).
CallGetMongoClient(constructorRaises) ==
    /\ \/ runpc = "calls" /\ Len(calls) < MaxClientCalls
       \/ runpc = "running" /\ Len(calls) + MainSteps < MaxClientCalls
    /\ LET r == GetMongoClient(MONGO_URI, MONGO_CLIENT, Len(clients), constructorRaises)
       IN  /\ (constructorRaises => Configured(MONGO_URI) /\ MONGO_CLIENT = NoClient)
           /\ MONGO_CLIENT' = r.client
           /\ clients' = IF r.constructed THEN Append(clients, 0) ELSE clients
           /\ calls' = Append(calls, Call("get", r.returned))
    /\ UNCHANGED <<MONGO_URI, runpc>>
    /\ UNCHANGED <<hpc, hargs, handler, article, sink, wresult, elem, config,
                   provider_url, uresult, date_raw, dresult>>
    /\ UNCHANGED <<fetchVars, mainVars, collectVars, existing_titles>>

\* A caller calls close_mongo_client() before main().
CallCloseMongoClient ==
    /\ runpc = "calls"
    /\ Len(calls) < MaxClientCalls
    /\ LET r == CloseMongoClient(MONGO_CLIENT, clients)
       IN  /\ MONGO_CLIENT' = r.client
           /\ clients' = r.closes
           /\ calls' = Append(calls, Call("close", MONGO_CLIENT))
    /\ UNCHANGED <<MONGO_URI, runpc>>
    /\ UNCHANGED <<hpc, hargs, handler, article, sink, wresult, elem, config,
                   provider_url, uresult, date_raw, dresult>>
    /\ UNCHANGED <<fetchVars, mainVars, collectVars, existing_titles>>

\* main(timestamp) is called: line 204 starts asyncio.run(async_main(...)).
MainStart ==
    /\ runpc = "calls"
    /\ Len(calls) + MainSteps < MaxClientCalls
    /\ runpc' = "running"
    /\ calls' = Append(calls, Call("main", NoClient))
    /\ UNCHANGED <<MONGO_URI, MONGO_CLIENT, clients>>
    /\ UNCHANGED <<hpc, hargs, handler, article, sink, wresult, elem, config,
                   provider_url, uresult, date_raw, dresult>>
    /\ UNCHANGED <<fetchVars, mainVars, collectVars, existing_titles>>

\* main line 204: asyncio.run returns, or the exception of async_main leaves
\* it.
AsyncMainEnds(raises) ==
    /\ runpc = "running"
    /\ runpc' = IF raises THEN "raised" ELSE "returned"
    /\ calls' = Append(calls, Call(IF raises THEN "async_main raises"
                                   ELSE "async_main returns", NoClient))
    /\ UNCHANGED <<MONGO_URI, MONGO_CLIENT, clients>>
    /\ UNCHANGED <<hpc, hargs, handler, article, sink, wresult, elem, config,
                   provider_url, uresult, date_raw, dresult>>
    /\ UNCHANGED <<fetchVars, mainVars, collectVars, existing_titles>>

\* main lines 205-207: the finally clause calls close_mongo_client(); main
\* returns, or the exception of async_main goes on to its caller.
MainFinally ==
    /\ runpc \in {"returned", "raised"}
    /\ LET r == CloseMongoClient(MONGO_CLIENT, clients)
       IN  /\ MONGO_CLIENT' = r.client
           /\ clients' = r.closes
           /\ calls' = Append(calls, Call("close", MONGO_CLIENT))
    /\ runpc' = "ended"
    /\ UNCHANGED MONGO_URI
    /\ UNCHANGED <<hpc, hargs, handler, article, sink, wresult, elem, config,
                   provider_url, uresult, date_raw, dresult>>
    /\ UNCHANGED <<fetchVars, mainVars, collectVars, existing_titles>>

\* The values os.environ.get("MONGO_URI") gives: unset, empty, a URI.
MongoUris == {None, "", "mongodb://telemetry"}

InitMongo ==
    /\ MONGO_URI \in MongoUris
    /\ MONGO_CLIENT = NoClient
    /\ clients = <<>>
    /\ calls = <<>>
    /\ runpc = "calls"
    /\ hpc = "idle"
    /\ date_raw = NoneText
    /\ dresult = NoDateYet
    /\ hargs = [name |-> "", strategy |-> "", element |-> ""]
    /\ handler = NoHandlerYet
    /\ article = <<>>
    /\ sink = "absent"
    /\ wresult = NoOutcome
    /\ elem = <<>>
    /\ config = NoConfig
    /\ provider_url = NoUrl
    /\ uresult = <<>>
    /\ state = InitFetcherState(DEFAULT_REQUEST_INTERVAL)
    /\ lock = Unlocked
    /\ clock = 0
    /\ latency = 0
    /\ pc = [t \in Tasks |-> "idle"]
    /\ NoCallYet
    /\ MainIdle
    /\ CollectIdle
    /\ existing_titles = {}

NextMongo ==
    \/ \E r \in BOOLEAN : CallGetMongoClient(r)
    \/ CallCloseMongoClient
    \/ MainStart
    \/ \E r \in BOOLEAN : AsyncMainEnds(r)
    \/ MainFinally

SpecMongo == InitMongo /\ [][NextMongo]_vars

----------------------------------------------------------------------------
\* Properties of the fetcher.

\* The call that reserved k-th.
Nth(k) == reserved[k]
HasReserved(t) == \E k \in 1..Len(reserved) : reserved[k] = t

\* C3: the slot a call reserves is at least request_interval later than the
\* slot reserved by the call before it (for the first call: than the
\* last_request_time the state was created with), and a GET in flight was
\* issued no earlier than the slot its call reserved.
C3_SlotsSpaced ==
    /\ \A k \in 1..Len(reserved) :
          slot[Nth(k)] >= (IF k = 1 THEN 0 ELSE slot[Nth(k - 1)])
                            + state.request_interval
    /\ \A t \in Tasks : pc[t] = "await" => getAt[t] >= slot[t]

\* Two calls have reserved, the second while the slot of the first was still
\* in the future, and the second has slept and issued its GET.
C3_Witness ==
    /\ Len(reserved) >= 2
    /\ wait_time[Nth(2)] > state.request_interval
    /\ pc[Nth(2)] = "await"

\* C4: no step decreases last_request_time.
C4_Monotonic ==
    [][state'.last_request_time >= state.last_request_time]_vars

\* A call reserved while last_request_time was ahead of the clock, after
\* another call had failed with an exception and a third with a non-200.
C4_Witness ==
    /\ Len(reserved) = MaxCalls
    /\ state.last_request_time > clock
    /\ \E t \in Tasks : pc[t] = "fetched" /\ response[t].raised
    /\ \E t \in Tasks : pc[t] = "fetched" /\ response[t].status = 404

\* C5: a task that sleeps for its slot or awaits its GET does not hold the
\* lock: the lock is free at every suspension point, so a call that has
\* not reserved yet can reserve whatever the other calls are doing.
C5_LockNotHeldAcrossIO ==
    /\ \A t \in Tasks : pc[t] \in {"sleep", "await"} => lock # t
    /\ lock = Unlocked
    /\ (\E t \in Tasks : pc[t] = "fetch") => ENABLED (\E t \in Tasks : FetchReserve(t))

\* A call has reserved its slot while the call that reserved first is still
\* awaiting its GET and the call that reserved second is still asleep.
C5_Witness ==
    /\ Len(reserved) = MaxCalls
    /\ pc[Nth(1)] = "await"
    /\ pc[Nth(2)] = "sleep"

\* C6 as stated: in a timed burst the k-th call to reserve waits
\* (k-1)*request_interval, the GETs overlap (when a call issues its GET the
\* GET of the call before it is still in flight), and when all calls have
\* returned the clock is at (N-1)*request_interval + latency after the start.
BurstWaits ==
    \A k \in 1..Len(reserved) :
       /\ slot[Nth(k)] = started + (k - 1) * state.request_interval
       /\ pc[Nth(k)] \in {"sleep", "await"} =>
             wait_time[Nth(k)] = (k - 1) * state.request_interval
       /\ pc[Nth(k)] = "await" => getAt[Nth(k)] = slot[Nth(k)]

BurstDone ==
    (\A t \in Calls : pc[t] = "fetched") =>
        clock = started + (MaxCalls - 1) * state.request_interval + latency

GetsOverlap ==
    \A k \in 2..Len(reserved) :
       (pc[Nth(k)] = "await" /\ clock = getAt[Nth(k)]) => pc[Nth(k - 1)] = "await"

C6_BurstOverlaps_Original == BurstWaits /\ BurstDone /\ GetsOverlap

\* C6 as amended: the k-th call to reserve waits (k-1)*request_interval and
\* all calls have returned at (N-1)*request_interval + L after the start; the
\* GETs overlap whenever request_interval < L.
C6_Burst ==
    /\ BurstWaits
    /\ BurstDone
    /\ state.request_interval < latency => GetsOverlap

\* All calls of the burst have returned, with request_interval < latency.
C6_Witness ==
    /\ \A t \in Calls : pc[t] = "fetched"
    /\ state.request_interval < latency
    /\ MaxCalls * latency > (MaxCalls - 1) * state.request_interval + latency

\* C7: a call issues one GET, never ends with an exception, and returns a
\* document exactly when the GET produced a response with status 200.
C7_OneGetNoRaise ==
    \A t \in Tasks :
       /\ gets[t] <= 1
       /\ pc[t] # "fetch_raised"
       /\ pc[t] \in {"await", "fetched"} => gets[t] = 1
       /\ pc[t] = "fetched" =>
             /\ soup[t] \in {"soup", "None"}
             /\ soup[t] = "soup" <=> (~response[t].raised /\ response[t].status = 200)

\* Three calls have returned: one with a document, one after a 404, one
\* after an exception of the GET.
C7_Witness ==
    /\ \E t \in Tasks : pc[t] = "fetched" /\ soup[t] = "soup"
    /\ \E t \in Tasks : pc[t] = "fetched" /\ soup[t] = "None" /\ response[t].status = 404
    /\ \E t \in Tasks : pc[t] = "fetched" /\ soup[t] = "None" /\ response[t].raised

\* C8: a step changes the fetcher state only when a call reserves its slot,
\* and then only last_request_time; a call that returns, failed or not,
\* leaves the state and the lock as they are.
C8_OnlySlotChanges ==
    [][/\ state'.request_interval = state.request_interval
       /\ state'.client = state.client
       /\ state' # state =>
             \E t \in Tasks : /\ pc[t] = "fetch" /\ pc'[t] \in {"sleep", "await"}
                              /\ slot[t] = -1 /\ slot'[t] = state'.last_request_time
       /\ \A t \in Tasks :
             (pc[t] = "await" /\ pc'[t] # "await") => (state' = state /\ lock' = lock)
      ]_vars

\* A call has failed after reserving a slot later than the initial one, and
\* the state still holds a reserved slot.
C8_Witness ==
    /\ \E t \in Tasks : pc[t] = "fetched" /\ soup[t] = "None" /\ slot[t] > 0
    /\ state.last_request_time > 0
    /\ state.client = "open"

----------------------------------------------------------------------------
\* Properties of process_provider and async_main.

\* The pipelines suspended inside fetch_page: sleeping for their slot or
\* awaiting the GET.
SuspendedInFetch == {t \in Tasks : pc[t] \in {"sleep", "await"}}

\* C1 as stated: at most 3 process_provider pipelines are in flight at once;
\* in particular at most 3 tasks are suspended inside fetch_page.
C1_AtMostThreeInFlight ==
    Cardinality(SuspendedInFetch) <= SEMAPHORE_PERMITS

\* C2 as stated: no process_provider task ends with an exception, and no
\* provider is kept from being processed by the failure of another (no task
\* is cancelled, gather returns the article lists of all providers).
C2_FailureIsolated ==
    /\ \A t \in Tasks : pc[t] \notin {"raised", "cancelled"}
    /\ mainpc # "gather" =>
          \A t \in 1..Len(providers) :
             \A k \in 1..Len(articles[t]) :
                \E j \in 1..Len(all_articles) : all_articles[j] = articles[t][k]

----------------------------------------------------------------------------
\* Properties of get_articles.

\* The title is already known: trimmed and lowercased it equals the trimmed
\* and lowercased form of a member of existing_titles.
Known(title) ==
    \E e \in existing_titles : Lower(Strip(e)) = Lower(Strip(title))

Range(f) == {f[i] : i \in DOMAIN f}

\* C9: the generator never ends with an exception; the extractor is invoked
\* on every fragment in turn, also after a fragment on which it raised; the
\* records yielded are exactly those of the fragments whose extraction
\* succeeded and whose title is not known, so each raising fragment lowers
\* the number of records by one.
C9_NoAbort ==
    /\ gen # "raised"
    /\ invoked = [i \in 1..cursor |-> i]
    /\ gen = "exhausted" => cursor = Len(elements)
    /\ Range(emitted) = {i \in 1..cursor : ~elements[i].raises /\ ~Known(elements[i].title)}
    /\ Len(yielded) = Len(emitted)
    /\ Len(yielded) = cursor - Cardinality({i \in 1..cursor : elements[i].raises})
                             - Cardinality({i \in 1..cursor :
                                    ~elements[i].raises /\ Known(elements[i].title)})

\* The generator is exhausted after MaxFragments fragments, all with new
\* titles but the first, on which the extractor raised: MaxFragments - 1
\* records.
C9_Witness ==
    /\ gen = "exhausted"
    /\ Len(elements) = MaxFragments
    /\ elements[1].raises
    /\ \A i \in 2..Len(elements) : ~elements[i].raises
    /\ Len(yielded) = MaxFragments - 1

\* C10: a fragment whose extraction succeeded is suppressed exactly when its
\* title is known.
C10_Dedup ==
    \A i \in 1..cursor :
       ~elements[i].raises => (i \notin Range(emitted) <=> Known(elements[i].title))

\* A fragment was suppressed by a member of existing_titles that differs from
\* its title in case and in surrounding whitespace, neither being in
\* normal form; another fragment was yielded.
C10_Witness ==
    /\ \E i \in 1..cursor :
          /\ ~elements[i].raises
          /\ i \notin Range(emitted)
          /\ elements[i].title # Lower(elements[i].title)
          /\ elements[i].title # Strip(elements[i].title)
          /\ \A e \in existing_titles :
                Lower(Strip(e)) = Lower(Strip(elements[i].title)) =>
                    e # Strip(e) /\ e # Lower(e) /\ e # elements[i].title
    /\ emitted # <<>>


\* C11 as stated: every record get_articles yields has the five fields
\* (date, title, link, source, tier) that the dry-run listing of async_main
\* and insert_articles_event_mongo unpack.
C11_FiveFields ==
    \A i \in 1..Len(yielded) : UnpacksFive(yielded[i])


----------------------------------------------------------------------------
\* Properties of get_strategy_handler and of the wrapped extractor.

ErrorLogs == SelectSeq(wresult.logs, LAMBDA l : l.level = "error")

\* The snippet is the first 300 characters of the article's markup with
\* every newline replaced by a space.
IsSnippetOf(snip, art) ==
    /\ Len(snip) = (IF Len(art.html) < SNIPPET_CHARS THEN Len(art.html) ELSE SNIPPET_CHARS)
    /\ \A i \in 1..Len(snip) :
          snip[i] = (IF art.html[i] = "\n" THEN " " ELSE art.html[i])

\* C12: when the inner extractor succeeds the wrapper returns its result
\* unchanged and logs nothing; when it raises the wrapper logs exactly one
\* error, naming the site and the snippet of the article, and raises the
\* exception of the inner extractor.
C12_PassThroughOrReraise ==
    /\ hpc \in {"returned", "failed"} => (hpc = "failed" <=> article.raises)
    /\ hpc = "returned" =>
          /\ wresult.value = article.info
          /\ wresult.logs = <<>>
          /\ wresult.events = <<>>
    /\ hpc = "failed" =>
          /\ wresult.value = article.exc
          /\ Len(ErrorLogs) = 1
          /\ ErrorLogs[1].site = hargs.name
          /\ ErrorLogs[1].exc = article.exc
          /\ article.printable => IsSnippetOf(ErrorLogs[1].snippet, article)

\* The extractor raised on an article whose markup is longer than the
\* snippet, and the wrapper has re-raised.
C12_Witness ==
    /\ hpc = "failed"
    /\ Len(article.html) > SNIPPET_CHARS
    /\ Len(ErrorLogs[1].snippet) = SNIPPET_CHARS

\* C13: with any sink (absent, working, dropping the event, or raising while
\* the event is reported) the wrapper ends as with a working sink: it raises
\* the exception of the inner extractor, never that of the report, or
\* returns the same result, so get_articles skips or emits the same records.
C13_TelemetryBestEffort ==
    hpc \in {"returned", "failed"} =>
       LET w(snk) == WrappedExtractor(handler.extractor, handler.site, article, snk)
       IN  /\ wresult = w(sink)
           /\ \A snk \in Sinks :
                 /\ w(snk).raised = w("ok").raised
                 /\ w(snk).value = w("ok").value
           /\ hpc = "failed" => wresult.value = article.exc /\ wresult.value # TelemetryError

\* The report of the event raised, and the wrapper has re-raised.
C13_Witness ==
    /\ hpc = "failed"
    /\ sink = "raises"
    /\ \E i \in 1..Len(wresult.logs) : wresult.logs[i].level = "warning"

\* The strategy get_strategy_handler works with (line 370).
StrategyOf(strategy) ==
    LowerWord(IF strategy \in {None, ""} THEN STRATEGY_HTML ELSE strategy)

\* C16 as stated: for the strategies html, rss and unspecified a handler is
\* returned for every provider name and element; None is returned only for
\* an unrecognized strategy.
C16_HtmlRssAlwaysResolve ==
    (hpc # "resolve" /\ hargs.name # None) =>
       /\ StrategyOf(hargs.strategy) \in {STRATEGY_HTML, STRATEGY_RSS} =>
             handler.kind = "handler"
       /\ handler.kind = "None" =>
             StrategyOf(hargs.strategy) \notin {STRATEGY_HTML, STRATEGY_RSS, STRATEGY_SUBSTACK}

\* C17 as stated: for the html strategy the extractor of the handler is the
\* universal extractor, whatever the provider's name.
C17_HtmlUsesUniversal ==
    (handler.kind = "handler" /\ StrategyOf(hargs.strategy) = STRATEGY_HTML) =>
        handler.extractor = "universal_html_extractor"

\* The extraction_failed event the wrapper inserts for the provider.
IsExtractionFailed(ev) ==
    /\ ev.type = "extraction_failed"
    /\ ev.source = LowerWord(hargs.name)
    /\ ev.message = article.exc

\* C18 as stated: every handler carries an extractor wrapped under the
\* provider's name, and every failure of the extractor is logged and
\* reported as extraction_failed.
C18_AlwaysReported ==
    /\ handler.kind = "handler" => handler.site = hargs.name
    /\ hpc = "failed" =>
          /\ Len(ErrorLogs) = 1
          /\ Len(wresult.events) = 1
          /\ IsExtractionFailed(wresult.events[1])

\* C18 as amended: every handler carries an extractor wrapped under the
\* provider's name; every failure of the extractor is logged under that
\* name, and is reported as extraction_failed exactly when the sink takes
\* the event.
C18_WrappedAndLogged ==
    /\ handler.kind = "handler" => handler.site = hargs.name
    /\ hpc = "failed" =>
          /\ Len(ErrorLogs) = 1
          /\ ErrorLogs[1].site = hargs.name
          /\ sink = "ok" =>
                Len(wresult.events) = 1 /\ IsExtractionFailed(wresult.events[1])
          /\ sink # "ok" => wresult.events = <<>>

\* A failure of the extractor of the rss fallback has been reported.
C18_Witness ==
    /\ hpc = "failed"
    /\ sink = "ok"
    /\ handler.extractor = RSS_FALLBACK
    /\ Len(wresult.events) = 1


----------------------------------------------------------------------------
\* Properties of process_provider on a failing provider.

\* C14 as stated: an exception in a provider's pipeline outside the
\* per-fragment boundary never leaves process_provider; the provider ends
\* with no articles and with a provider_failed event (outside dry-run, when
\* a telemetry client exists).
C14_ProviderFailedRecorded ==
    \A t \in 1..Len(providers) :
       /\ pc[t] # "raised"
       /\ (pc[t] = "done" /\ did[t] = <<"element", "find_all">>) =>
             /\ articles[t] = <<>>
             /\ (~dry_run /\ mongo) => events[t] = <<Event("provider_failed", 0)>>

\* C15: when fetch_page returned no document, process_provider returns an
\* empty article list and the fetcher state unchanged, without evaluating
\* the search criteria, searching the page or calling get_articles, and
\* inserts one fetch_failed event outside dry-run when a telemetry client
\* exists, and no event otherwise.
C15_AbsentDocument ==
    [][\A t \in Tasks :
         (pc[t] = "fetched" /\ soup[t] = "None" /\ pc'[t] \in {"done", "raised"}) =>
            /\ pc'[t] = "done"
            /\ articles'[t] = <<>>
            /\ did'[t] = <<>>
            /\ state' = state
            /\ events'[t] = events[t] \o (IF ~dry_run /\ mongo
                                           THEN <<Event("fetch_failed", 0)>>
                                           ELSE <<>>)]_vars

\* A provider whose page could not be fetched has returned, and its
\* fetch_failed event was inserted.
C15_Witness ==
    \E t \in Tasks :
       /\ pc[t] = "done"
       /\ HandlerOf(t).kind = "handler"
       /\ did[t] = <<>>
       /\ articles[t] = <<>>
       /\ events[t] = <<Event("fetch_failed", 0)>>


----------------------------------------------------------------------------
\* Properties of the universal extractor.

\* The date each of the five rules finds in the fragment, in the order of
\* the rules; NoDate when the rule's element is missing or its candidate
\* does not normalize.
RuleDates ==
    << SelectorDate(elem, config), TimeTagDate(elem), AttributeDate(elem),
       ClassDate(elem), PatternScanDate(elem) >>

\* The date the fragment must give, read off the elements it is put
\* together from.
ExpectedDate ==
    IF config.date_selector # NoSelector
       /\ (\E i \in 1..Len(elem) : elem[i].class = "when" /\ elem[i].text.form = "long")
    THEN <<2021, 1, 1>>
    ELSE IF (\E i \in 1..Len(elem) : elem[i].tag = "time" /\ elem[i].attrs["datetime"] # NoneText)
    THEN <<2022, 2, 2>>
    ELSE IF (\E i \in 1..Len(elem) : elem[i].attrs["data-date"] # NoneText)
    THEN <<2023, 3, 3>>
    ELSE IF (\E i \in 1..Len(elem) : elem[i].attrs["content"] # NoneText)
    THEN <<2023, 3, 4>>
    ELSE IF (\E i \in 1..Len(elem) : elem[i].class = "post-date")
    THEN <<2024, 4, 4>>
    ELSE IF elem # <<>> /\ elem[1].text.form = "iso"
    THEN <<2025, 5, 5>>
    ELSE IF DatedTexts(elem) = {}
    THEN NoDate
    ELSE LET k == CHOOSE i \in DatedTexts(elem) : TRUE
         IN  <<elem[k].text.y, elem[k].text.m, elem[k].text.d>>

\* C19: the date of the universal extractor is the date of the first rule,
\* in the order explicit selector, <time>, date attribute, date-like class,
\* full text, whose candidate normalizes to a date; a rule whose element
\* is missing or whose candidate does not normalize is passed over; with
\* no such rule the date is empty.
C19_FirstDateRuleWins ==
    hpc = "extracted" =>
       /\ \A k \in 1..5 :
             (RuleDates[k] # NoDate /\ \A j \in 1..(k - 1) : RuleDates[j] = NoDate) =>
                uresult[1] = RuleDates[k]
       /\ (\A k \in 1..5 : RuleDates[k] = NoDate) => uresult[1] = NoDate
       /\ uresult[1] = ExpectedDate

\* Without date_selector and <time>, a fragment with a data-date attribute
\* and an element of a date-like class, both holding dates, gave the date
\* of the attribute.
C19_Witness ==
    /\ hpc = "extracted"
    /\ config.date_selector = NoSelector
    /\ FindTag(elem, "time") = 0
    /\ (\E i \in 1..Len(elem) : elem[i].attrs["data-date"] # NoneText)
    /\ (\E i \in 1..Len(elem) : elem[i].class = "post-date")
    /\ uresult[1] = <<2023, 3, 3>>
    /\ RuleDates[4] = <<2024, 4, 4>>

\* C20 as stated: the result has the four fields (date, title, link, tier),
\* tier is the number 0..5 of the rule that produced the date, and it is 0
\* exactly when the date is empty.
C20_FourFieldsWithTier ==
    hpc = "extracted" =>
       /\ Len(uresult) = 4
       /\ uresult[4] \in 0..5
       /\ uresult[4] = 0 <=> uresult[1] = NoDate
       /\ uresult[4] # 0 =>
             /\ RuleDates[uresult[4]] = uresult[1]
             /\ \A j \in 1..(uresult[4] - 1) : RuleDates[j] = NoDate


\* The title/link rules as the specification states them, over the elements
\* of the fragment.
HEADINGS == {"h1", "h2", "h3", "h4"}

\* The class matches /title|headline|link|entry/i.
TitleLikeClass(class) ==
    class \in {"title", "headline", "link", "entry", "main-link", "entry-title"}

\* The href matches one of the words.
HrefMatches(href, words) == \E k \in 1..Len(href.path) : href.path[k] \in words

HasAmpersand(t) == t.s \in {"News & Views", "Q&A"}

GENERIC_PHRASES == {"read more", "continue reading"}

HeadingAnchor(element) ==
    FirstIndex({i \in 1..Len(element) :
        /\ element[i].tag = "a"
        /\ element[i].parent \in HEADINGS
        /\ StripText(element[i].text).n > 5})

TitleClassAnchor(element) ==
    FirstIndex({i \in 1..Len(element) :
        /\ element[i].tag = "a"
        /\ TitleLikeClass(element[i].class)
        /\ StripText(element[i].text).n > 10
        /\ ~HasAmpersand(element[i].text)
        /\ ~HrefMatches(element[i].href, {"category", "tag", "topic"})})

LongTextAnchor(element) ==
    FirstIndex({i \in 1..Len(element) :
        /\ element[i].tag = "a"
        /\ StripText(element[i].text).n > 15
        /\ element[i].text.s \notin GENERIC_PHRASES
        /\ ~HrefMatches(element[i].href, {"category", "tag", "topic", "author"})
        /\ ~HasAmpersand(element[i].text)})

\* The anchor the element at index i is or contains, 0 when there is none.
AnchorOf(element, i) ==
    IF element[i].tag = "a" THEN i
    ELSE FirstIndex({j \in (i + 1)..Len(element) :
            element[j].tag = "a" /\ element[j].parent = element[i].tag})

\* An href as the link of the result: resolved against the provider URL
\* unless it is absolute or there is no provider URL.
ResolvedLink(href, url) ==
    LET h == IF href = NoUrl THEN EmptyUrl ELSE href
    IN  IF url \notin {NoUrl, EmptyUrl} /\ h.scheme \notin {"http", "https"}
        THEN UrlJoin(url, h) ELSE h

\* Title and link by the first applicable of the six rules.
TitleAndLinkByRules(element, cfg, url) ==
    LET sel == IF cfg.title_selector # NoSelector
               THEN SelectOne(element, cfg.title_selector) ELSE 0
        byAnchor(i) == [title |-> StripText(element[i].text),
                        link |-> ResolvedLink(element[i].href, url)]
    IN  CASE sel # 0 ->
               [title |-> StripText(element[sel].text),
                link |-> IF AnchorOf(element, sel) # 0
                         THEN ResolvedLink(element[AnchorOf(element, sel)].href, url)
                         ELSE EmptyUrl]
          [] sel = 0 /\ HeadingAnchor(element) # 0 -> byAnchor(HeadingAnchor(element))
          [] sel = 0 /\ HeadingAnchor(element) = 0 /\ TitleClassAnchor(element) # 0 ->
               byAnchor(TitleClassAnchor(element))
          [] sel = 0 /\ HeadingAnchor(element) = 0 /\ TitleClassAnchor(element) = 0
             /\ LongTextAnchor(element) # 0 -> byAnchor(LongTextAnchor(element))
          [] sel = 0 /\ HeadingAnchor(element) = 0 /\ TitleClassAnchor(element) = 0
             /\ LongTextAnchor(element) = 0 /\ FindTag(element, "a") # 0 ->
               byAnchor(FindTag(element, "a"))
          [] OTHER -> [title |-> Untitled, link |-> EmptyUrl]

\* C21 as stated: the title and the link of the universal extractor are
\* those of the first applicable of the six title/link rules (title_selector
\* match, anchor in h1..h4 with text longer than 5, title-like class anchor
\* with text longer than 10, first anchor with text longer than 15 that is
\* not a generic phrase, first anchor, untitled sentinel).
C21_TitleLinkByPriority ==
    hpc = "extracted" =>
       /\ uresult[2] = TitleAndLinkByRules(elem, config, provider_url).title
       /\ uresult[3] = TitleAndLinkByRules(elem, config, provider_url).link


\* The link that standard relative-URL resolution gives for the href of the
\* anchor at index i of the fragment under the provider URL.
ExpectedLink(i) ==
    LET href == elem[i].href
        base == provider_url
    IN  IF href # NoUrl /\ href.scheme \in {"http", "https"} THEN href
        ELSE IF base = NoUrl THEN (IF href = NoUrl THEN EmptyUrl ELSE href)
        ELSE IF href = NoUrl THEN base
        ELSE IF href.rooted
        THEN Url(base.scheme, base.host, href.path, TRUE, href.slash)
        ELSE IF base.slash
        THEN Url(base.scheme, base.host, base.path \o href.path, TRUE, href.slash)
        ELSE Url(base.scheme, base.host,
                 SubSeq(base.path, 1, Len(base.path) - 1) \o href.path,
                 TRUE, href.slash)

\* C22: the link of the result is the href of an anchor of the fragment,
\* unchanged when it starts with http:// or https:// or when there is no
\* provider URL, and otherwise resolved against the provider URL;
\* "blog/post-1" under "https://github.blog/" gives
\* "https://github.blog/blog/post-1".
C22_LinkNormalized ==
    (hpc = "extracted" /\ FindTag(elem, "a") # 0) =>
       /\ \E i \in 1..Len(elem) :
             /\ elem[i].tag = "a"
             /\ config.title_selector = NoSelector => uresult[2] = StripText(elem[i].text)
             /\ uresult[3] = ExpectedLink(i)
       /\ (\E i \in 1..Len(elem) :
              /\ elem[i].tag = "a"
              /\ elem[i].text.s = "A long headline"
              /\ provider_url = Url("https", "github.blog", <<>>, TRUE, TRUE)) =>
             uresult[3] = Url("https", "github.blog", <<"blog", "post-1">>, TRUE, FALSE)

\* A relative href was resolved against a provider URL that does not end
\* with a slash: the last segment of the provider URL is replaced.
C22_Witness ==
    /\ hpc = "extracted"
    /\ provider_url = Url("https", "example.com", <<"blog", "index.html">>, TRUE, FALSE)
    /\ uresult[3] = Url("https", "example.com", <<"blog", "blog", "post-1">>, TRUE, FALSE)


----------------------------------------------------------------------------
\* Properties of clean_and_convert_date.

\* The date of the first of the four attempts, in their order, that succeeds
\* on the stripped text; NoDate when none does.
FirstAttemptDate(t) ==
    IF IsoPrefixDate(t) # NoDate THEN IsoPrefixDate(t)
    ELSE IF Rfc822Date(t) # NoDate THEN Rfc822Date(t)
    ELSE IF FuzzyDate(t) # NoDate THEN FuzzyDate(t)
    ELSE LegacyDate(t)

\* C23 as stated: clean_and_convert_date never raises, whatever its
\* argument; its result is the date of the first attempt that succeeds (ISO
\* prefix, RFC-822, fuzzy parse, legacy substring), written YYYY-MM-DD with
\* a year of four digits, and it is empty when the argument is empty or
\* every attempt fails.
C23_NeverRaisesFirstSuccess ==
    hpc = "normalized" =>
       /\ dresult.raised = ""
       /\ date_raw.form \in {"none", "empty", "blank"} => dresult.value = NoDate
       /\ date_raw.form \notin {"none", "empty", "blank"} \cup NonStrings =>
             /\ dresult.value = FirstAttemptDate(StripText(date_raw))
             /\ dresult.value # NoDate =>
                   /\ dresult.value = <<date_raw.y, date_raw.m, date_raw.d>>
                   /\ YearWidth(dresult.value[1]) = 4


----------------------------------------------------------------------------
\* Properties of a run of async_main.

\* C24 as stated: in dry-run mode nothing is written during the whole run:
\* the sheet gets no row and is neither sorted nor stamped, and no article,
\* summary or error event (fetch_failed, provider_failed, extraction_failed)
\* is inserted.
C24_DryRunWritesNothing ==
    dry_run =>
       /\ sheet = EmptySheet
       /\ \A t \in {0} \cup Tasks : events[t] = <<>>


\* C25 as stated: the fetcher's client is closed at the end of every run of
\* async_main, also of a run in which a persistence step raises, and it is
\* closed only after every provider task has returned, so that no GET is
\* issued after close_fetcher.
C25_ClientClosedAtRunEnd ==
    /\ mainpc \in {"done", "raised"} => state.client = "closed"
    /\ state.client = "closed" =>
          \A t \in 1..Len(providers) : pc[t] = "done" /\ getAt[t] = -1


\* The persistence of the run has ended and no call on the sheet failed.
PersistenceEnded ==
    /\ mainpc \in {"done", "raised"}
    /\ \A t \in 1..Len(providers) : pc[t] = "done"
    /\ \A k \in 1..Len(sheet.ops) : sheet.ops[k] \in {"append", "sort", "stamp"}

SummaryEvents == SelectSeq(events[0], LAMBDA e : e.type = "extraction_summary")

\* C26 as stated: a non-dry run with a telemetry client inserts exactly one
\* summary event, whose count is the number of articles gathered from all
\* providers; batch_append_articles is called once when that number is
\* positive and never when it is zero; the sort and the timestamp update
\* come after the batch append.
C26_OneSummaryOneBatch ==
    (~dry_run /\ mongo /\ PersistenceEnded) =>
       /\ SummaryEvents = <<Event("extraction_summary", Len(all_articles))>>
       /\ sheet.ops = IF all_articles # <<>> THEN <<"append", "sort", "stamp">>
                      ELSE <<"sort", "stamp">>


----------------------------------------------------------------------------
\* Properties of the records of get_articles.

\* C27: the records are emitted in the input order of the fragments (the
\* fragments that gave the records are at increasing positions, and each
\* record holds the date, title and link of its fragment), and the source
\* of every record is the source_name handed to get_articles, also when the
\* extractor's result carries a source of its own.
C27_InputOrderAndSource ==
    /\ Len(emitted) = Len(yielded)
    /\ \A k \in 1..Len(yielded) :
          /\ emitted[k] \in 1..cursor
          /\ k > 1 => emitted[k - 1] < emitted[k]
          /\ yielded[k] = << elements[emitted[k]].date, elements[emitted[k]].title,
                             elements[emitted[k]].link, source_name >>

\* A generator that is exhausted gave two records from fragments that are
\* not neighbours, the second from a fragment whose extractor result
\* carries another source.
C27_Witness ==
    /\ gen = "exhausted"
    /\ Len(yielded) = 2
    /\ emitted = <<1, 3>>
    /\ elements[3].source = "freeCodeCamp"
    /\ yielded[2][4] = source_name
    /\ source_name = "GitHub"


----------------------------------------------------------------------------
\* Termination of the provider tasks.

\* C28 as stated: under fair scheduling and terminating GETs every
\* fetch_page call returns, every process_provider task completes with an
\* article list, or fails and is recorded by process_provider, and gather
\* over all providers terminates.
C28_EveryTaskCompletes ==
    /\ \A t \in Tasks : (pc[t] = "start") ~> (pc[t] = "done")
    /\ \A t \in Tasks : (pc[t] \in {"fetch", "sleep", "await"}) ~> (pc[t] \in {"fetched", "done"})
    /\ <>(mainpc # "gather")

\* Every task ends, and the run leaves gather: no task waits forever.
AllTasksEnd ==
    /\ \A t \in Tasks : <>(pc[t] \in {"idle", "done", "raised", "cancelled"})
    /\ <>(mainpc \in {"done", "raised"})

----------------------------------------------------------------------------
\* Titles discovered during a run.

\* The records a page gives for a source: one per fragment, in page order,
\* on which the extractor returns a title whose normalised form is not a
\* normalised title of the sheet.
NewFragments ==
    SelectSeq(PageFragments,
              LAMBDA f : /\ ~f.raises
                         /\ \A e \in SheetTitles :
                               Lower(Strip(e)) # Lower(Strip(f.title)))

PageRecords(source) ==
    [i \in 1..Len(NewFragments) |->
        <<NewFragments[i].date, NewFragments[i].title, NewFragments[i].link, source>>]

Extracted(t) ==
    /\ t <= Len(providers)
    /\ pc[t] = "done"
    /\ did[t] # <<>>
    /\ did[t][Len(did[t])] = "get_articles"

TitleCount(records, title) ==
    Cardinality({i \in 1..Len(records) : records[i][2] = title})

RECURSIVE BatchTitleCount(_, _)
BatchTitleCount(n, title) ==
    IF n = 0 THEN 0
    ELSE BatchTitleCount(n - 1, title) + TitleCount(articles[n], title)

\* C29: existing_titles is only read during a run and the titles found in the
\* run are not compared with each other: a provider whose page was extracted
\* has one record for every fragment with a title new to the sheet, a repeated
\* title included, and the batch handed to persistence holds a title as many
\* times as the providers' lists do together.
C29_NoDedupWithinRun ==
    /\ [](\A t \in Tasks : Extracted(t) => articles[t] = PageRecords(providers[t].name))
    /\ [](mainpc \in {"persist", "done"} =>
            \A f \in Range(PageFragments) :
               TitleCount(all_articles, f.title)
                 = BatchTitleCount(Len(providers), f.title))
    /\ [][existing_titles' = existing_titles]_vars

\* The batch handed to persistence holds one new title twice from one page
\* and again from the page of another provider.
C29_Witness ==
    /\ mainpc = "persist"
    /\ \E i, j, k \in 1..Len(all_articles) :
          /\ i < j
          /\ all_articles[i][2] = all_articles[j][2]
          /\ all_articles[i][2] = all_articles[k][2]
          /\ all_articles[i][4] = all_articles[j][4]
          /\ all_articles[i][3] # all_articles[j][3]
          /\ all_articles[k][4] # all_articles[i][4]
          /\ ~\E e \in existing_titles :
                 Lower(Strip(e)) = Lower(Strip(all_articles[i][2]))

----------------------------------------------------------------------------
\* Properties of the telemetry client.

\* The calls of get_mongo_client that returned a client.
ClientGets == {i \in 1..Len(calls) : calls[i].op = "get" /\ calls[i].client # NoClient}

Closes == {i \in 1..Len(calls) : calls[i].op = "close"}

\* The clients on which close() was not called.
OpenClients == {c \in 1..Len(clients) : clients[c] = 0}

\* The calls since main() was called.
SinceMain == {i \in 1..Len(calls) : \E m \in 1..i : calls[m].op = "main"}

\* C30: the telemetry client is a lazily created singleton. Clients are made
\* by the calls of get_mongo_client only, at most one is open at a time and
\* it is the one the module holds; the gets that return a client with no
\* close between them return the same one; a get after a close returns a
\* client no earlier call has seen; no client is closed twice; and main
\* calls close_mongo_client once, after async_main has returned or raised,
\* which leaves every client closed once and none held.
C30_LazySingleton ==
    /\ Len(clients) = Cardinality({calls[i].client : i \in ClientGets})
    /\ Cardinality(OpenClients) <= 1
    /\ OpenClients = IF MONGO_CLIENT = NoClient THEN {} ELSE {MONGO_CLIENT}
    /\ \A c \in 1..Len(clients) : clients[c] <= 1
    /\ \A i, j \in ClientGets :
          (i < j /\ ~\E k \in Closes : i < k /\ k < j) =>
             calls[i].client = calls[j].client
    /\ \A k \in Closes : \A j \in ClientGets :
          k < j => \A i \in 1..k : calls[i].client # calls[j].client
    /\ runpc \in {"running", "returned", "raised"} => SinceMain \cap Closes = {}
    /\ runpc = "ended" =>
          /\ Cardinality(SinceMain \cap Closes) = 1
          /\ calls[Len(calls)].op = "close"
          /\ calls[Len(calls) - 1].op \in {"async_main returns", "async_main raises"}
          /\ MONGO_CLIENT = NoClient
          /\ \A c \in 1..Len(clients) : clients[c] = 1

\* With a configured URI two gets returned one client, a close followed, a
\* get within main's run returned a fresh client, async_main raised, and
\* the close of main's finally clause closed that client.
C30_Witness ==
    /\ Configured(MONGO_URI)
    /\ runpc = "ended"
    /\ calls[Len(calls) - 1].op = "async_main raises"
    /\ \E i, j, l \in ClientGets : \E k \in Closes :
          /\ i < j /\ j < k /\ k < l
          /\ l \in SinceMain
          /\ calls[i].client = calls[j].client
          /\ calls[k].client = calls[i].client
          /\ calls[l].client # calls[i].client
          /\ calls[Len(calls)].client = calls[l].client
          /\ clients[calls[l].client] = 1

============================================================================
